---- MODULE Spec2Model ----
(***************************************************************************)
(* A model of the Basic Asset Library (BAL) manager:                       *)
(*   plugin/openassetio_manager_bal/bal.py            the library engine   *)
(*   plugin/openassetio_manager_bal/BasicAssetLibraryInterface.py          *)
(*                                                    the batch interface  *)
(*                                                                         *)
(* Python values are encoded as follows.                                   *)
(*   str            a sequence of one-character strings                    *)
(*   dict           a function whose DOMAIN is the set of keys             *)
(*   list           a sequence                                             *)
(*   None (version) 0: EntityInfo.version is None or an int >= 1, and the  *)
(*                  code only tests it for truthiness or "is None"         *)
(*   version dict   [kind, traits]: kind "null" is a JSON null, "blank" a  *)
(*                  dict whose "traits" is missing or null, "traits" a     *)
(*                  dict holding a traits dict                             *)
(*   property value [isStr, s, n]: a str s or an int n                     *)
(***************************************************************************)
EXTENDS Integers, Sequences, FiniteSets, TLC

\* library is the manager's __library, settings its __settings, call the
\* last call made and what it returned.
VARIABLES library, call, settings

vars == <<library, call, settings>>

\* ------------------------------------------------------------------ bounds

\* The most version records the create/register actions let a library hold.
MaxVersions == 5

\* The largest version number a reference or locator names.
MaxTag == 2

\* ------------------------------------------------------------ Python values

None == 0

EmptyDict == <<>>

Put(d, k, v) == [x \in (DOMAIN d) \cup {k} |-> IF x = k THEN v ELSE d[x]]

\* dict.get(k, default)
Get(d, k, default) == IF k \in DOMAIN d THEN d[k] ELSE default

StrVal(s) == [isStr |-> TRUE, s |-> s, n |-> 0]

IntVal(n) == [isStr |-> FALSE, s |-> <<>>, n |-> n]

NullRecord == [kind |-> "null", traits |-> EmptyDict]

BlankRecord == [kind |-> "blank", traits |-> EmptyDict]

TraitsRecord(traits) == [kind |-> "traits", traits |-> traits]

IsNone(version_dict) == version_dict.kind = "null"

\* version_dict.get("traits") is None
TraitsIsNone(version_dict) == version_dict.kind = "blank"

EntityInfo(name, version, access) == [name |-> name, version |-> version, access |-> access]

\* The entity dict that setdefault inserts for an unknown name.
NewEntityDict == [versions |-> <<>>, relations |-> <<>>, overrideByAccess |-> EmptyDict]

\* --------------------------------------------------------------- bal.py

\* library["entities"].setdefault(entity_info.name, {"versions": []}): the
\* library afterwards (the entity dict is then library.entities[name]).
_ensure_library_entity_dict(entity_info, lib) ==
    IF entity_info.name \in DOMAIN lib.entities
    THEN lib
    ELSE [lib EXCEPT !.entities = Put(lib.entities, entity_info.name, NewEntityDict)]

\* entities_dict.get(entity_info.name): present or not.
_library_entity_dict(entity_info, lib) == entity_info.name \in DOMAIN lib.entities

\* Returns [lib, rec, tag]: the library after the call, the version dict
\* (NullRecord for None) and the tag (None for None).
SelectIgnoringOverride(entity_info, lib) ==
    LET lib1 == _ensure_library_entity_dict(entity_info, lib)
        versions_list == lib1.entities[entity_info.name].versions
    IN  IF versions_list = <<>>
        THEN [lib |-> lib1, rec |-> NullRecord, tag |-> None]
        ELSE IF entity_info.version # None
        THEN IF Len(versions_list) <= entity_info.version - 1
             THEN [lib |-> lib1, rec |-> NullRecord, tag |-> None]
             ELSE [lib |-> lib1, rec |-> versions_list[entity_info.version],
                   tag |-> entity_info.version]
        ELSE [lib |-> lib1, rec |-> versions_list[Len(versions_list)],
              tag |-> Len(versions_list)]

_entity_version_dict_and_tag(entity_info, lib) ==
    LET lib1 == _ensure_library_entity_dict(entity_info, lib)
        entity_dict == lib1.entities[entity_info.name]
        versions_list == entity_dict.versions
    IN  IF entity_info.access \in DOMAIN entity_dict.overrideByAccess
        THEN [lib |-> lib1, rec |-> entity_dict.overrideByAccess[entity_info.access],
              tag |-> entity_info.version]
        ELSE IF versions_list = <<>>
        THEN [lib |-> lib1, rec |-> NullRecord, tag |-> None]
        ELSE IF entity_info.version # None
        THEN IF Len(versions_list) <= entity_info.version - 1
             THEN [lib |-> lib1, rec |-> NullRecord, tag |-> None]
             ELSE [lib |-> lib1, rec |-> versions_list[entity_info.version],
                   tag |-> entity_info.version]
        ELSE [lib |-> lib1, rec |-> versions_list[Len(versions_list)],
              tag |-> Len(versions_list)]

\* Returns [lib, tag]: the library with {"traits": {}} appended to the
\* entity's versions, and the new length of that list.
NextTagReusesLast(entity_info, lib) ==
    LET lib1 == _ensure_library_entity_dict(entity_info, lib)
        versions_list == lib1.entities[entity_info.name].versions
        n == IF Len(versions_list) = 0 THEN 1 ELSE Len(versions_list)
    IN  [lib |-> [lib1 EXCEPT !.entities[entity_info.name].versions =
                      IF Len(versions_list) = 0
                      THEN <<TraitsRecord(EmptyDict)>>
                      ELSE [versions_list EXCEPT ![n] = TraitsRecord(EmptyDict)]],
         tag |-> n]

_next_entity_version_dict_and_tag(entity_info, lib) ==
    LET lib1 == _ensure_library_entity_dict(entity_info, lib)
        versions_list == Append(lib1.entities[entity_info.name].versions,
                                TraitsRecord(EmptyDict))
    IN  [lib |-> [lib1 EXCEPT !.entities[entity_info.name].versions = versions_list],
         tag |-> Len(versions_list)]

\* Returns [lib, value].
ExistsWithoutNameCheck(entity_info, lib) ==
    LET sel == _entity_version_dict_and_tag(entity_info, lib)
    IN  [lib |-> sel.lib, value |-> ~IsNone(sel.rec)]

ExistsRequiresAccessible(entity_info, lib) ==
    IF entity_info.name \notin DOMAIN lib.entities
    THEN [lib |-> lib, value |-> FALSE]
    ELSE LET sel == _entity_version_dict_and_tag(entity_info, lib)
         IN  [lib |-> sel.lib, value |-> ~IsNone(sel.rec) /\ ~TraitsIsNone(sel.rec)]

exists(entity_info, lib) ==
    IF entity_info.name \notin DOMAIN lib.entities
    THEN [lib |-> lib, value |-> FALSE]
    ELSE LET sel == _entity_version_dict_and_tag(entity_info, lib)
         IN  IF IsNone(sel.rec)
             THEN [lib |-> sel.lib, value |-> FALSE]
             ELSE [lib |-> sel.lib, value |-> TRUE]

\* ------------------------------------------------------------ str helpers

Lower == {"a", "b", "c", "d", "e", "f", "g", "h", "i", "j", "k", "l", "m",
          "n", "o", "p", "q", "r", "s", "t", "u", "v", "w", "x", "y", "z"}

Upper == {"A", "B", "C", "D", "E", "F", "G", "H", "I", "J", "K", "L", "M",
          "N", "O", "P", "Q", "R", "S", "T", "U", "V", "W", "X", "Y", "Z"}

Digits == {"0", "1", "2", "3", "4", "5", "6", "7", "8", "9"}

\* s[i:] and s[:i] with Python's 0-based, end-exclusive indices.
From(s, i) == SubSeq(s, i + 1, Len(s))

Upto(s, i) == SubSeq(s, 1, IF i < Len(s) THEN i ELSE Len(s))

StartsWith(s, prefix) == Len(s) >= Len(prefix) /\ SubSeq(s, 1, Len(prefix)) = prefix

EndsWith(s, suffix) ==
    Len(s) >= Len(suffix) /\ SubSeq(s, Len(s) - Len(suffix) + 1, Len(s)) = suffix

\* str.find(chars): the 1-based position of the first character of s, at or
\* after position i, that is in the set chars; Len(s) + 1 when there is none.
RECURSIVE FindFrom(_, _, _)
FindFrom(s, chars, i) ==
    IF i > Len(s) THEN Len(s) + 1
    ELSE IF s[i] \in chars THEN i
    ELSE FindFrom(s, chars, i + 1)

\* str.split(sep): the list of the pieces of s between occurrences of sep.
RECURSIVE Split(_, _)
Split(s, sep) ==
    LET i == FindFrom(s, {sep}, 1)
    IN  IF i > Len(s) THEN <<s>>
        ELSE <<SubSeq(s, 1, i - 1)>> \o Split(SubSeq(s, i + 1, Len(s)), sep)

\* sep.join(parts)
RECURSIVE Join(_, _)
Join(parts, sep) ==
    IF parts = <<>> THEN <<>>
    ELSE IF Len(parts) = 1 THEN parts[1]
    ELSE parts[1] \o <<sep>> \o Join(Tail(parts), sep)

\* The lists of a list, one after the other.
RECURSIVE Flatten(_)
Flatten(seqs) == IF seqs = <<>> THEN <<>> ELSE Head(seqs) \o Flatten(Tail(seqs))

\* --------------------------------- string.Template(value).safe_substitute

IdStart == Lower \cup Upper \cup {"_"}

IdChars == IdStart \cup Digits

\* The position of the last character of the identifier that starts at i.
RECURSIVE IdEnd(_, _)
IdEnd(s, i) ==
    IF i + 1 <= Len(s) /\ s[i + 1] \in IdChars THEN IdEnd(s, i + 1) ELSE i

\* os.environ with the library's variables passed as keyword arguments on
\* top: a library variable wins over an environment variable.
EnvironFirst(name, variables, environ, original) ==
    IF name \in DOMAIN environ THEN environ[name]
    ELSE IF name \in DOMAIN variables THEN variables[name]
    ELSE original

TemplateLookup(name, variables, environ, original) ==
    IF name \in DOMAIN variables THEN variables[name]
    ELSE IF name \in DOMAIN environ THEN environ[name]
    ELSE original

\* The pattern is \$(?: \$ | id | {id} | <invalid> ): an escaped delimiter
\* gives "$", a named or braced identifier its value, or the matched text
\* when the identifier is undefined, and an ill-formed "$" stays as it is.
RECURSIVE safe_substitute(_, _, _, _)
safe_substitute(s, i, variables, environ) ==
    IF i > Len(s) THEN <<>>
    ELSE IF s[i] # "$" THEN <<s[i]>> \o safe_substitute(s, i + 1, variables, environ)
    ELSE IF i + 1 <= Len(s) /\ s[i + 1] = "$"
    THEN <<"$">> \o safe_substitute(s, i + 2, variables, environ)
    ELSE IF i + 1 <= Len(s) /\ s[i + 1] \in IdStart
    THEN LET j == IdEnd(s, i + 1)
         IN  TemplateLookup(SubSeq(s, i + 1, j), variables, environ, SubSeq(s, i, j))
                 \o safe_substitute(s, j + 1, variables, environ)
    ELSE IF /\ i + 2 <= Len(s)
            /\ s[i + 1] = "{"
            /\ s[i + 2] \in IdStart
            /\ IdEnd(s, i + 2) + 1 <= Len(s)
            /\ s[IdEnd(s, i + 2) + 1] = "}"
    THEN LET j == IdEnd(s, i + 2)
         IN  TemplateLookup(SubSeq(s, i + 2, j), variables, environ, SubSeq(s, i, j + 1))
                 \o safe_substitute(s, j + 2, variables, environ)
    ELSE <<"$">> \o safe_substitute(s, i + 1, variables, environ)

\* ------------------------------------------------- urllib.parse, posixpath

SchemeChars == Lower \cup Upper \cup Digits \cup {"+", "-", "."}

ToLower(c) ==
    IF c \in Upper
    THEN CHOOSE l \in Lower :
             \E k \in 1..26 :
                 /\ <<"a", "b", "c", "d", "e", "f", "g", "h", "i", "j", "k", "l", "m",
                      "n", "o", "p", "q", "r", "s", "t", "u", "v", "w", "x", "y", "z">>[k] = l
                 /\ <<"A", "B", "C", "D", "E", "F", "G", "H", "I", "J", "K", "L", "M",
                      "N", "O", "P", "Q", "R", "S", "T", "U", "V", "W", "X", "Y", "Z">>[k] = c
    ELSE c

\* The schemes of urllib.parse.uses_netloc that the model's strings can have.
uses_netloc == {<<"f", "i", "l", "e">>}

\* urlparse(url) for a url whose scheme is not in uses_params (neither
\* "file" nor an entity reference scheme is): [scheme, netloc, path, query,
\* fragment].
urlparse(url) ==
    LET colon == FindFrom(url, {":"}, 1)
        hasScheme == /\ colon <= Len(url)
                     /\ colon > 1
                     /\ url[1] \in Lower \cup Upper
                     /\ \A k \in 1..(colon - 1) : url[k] \in SchemeChars
        \* url.split("?", 1) of what precedes the fragment
        SplitQuery(scheme, netloc, rest3, fragment, qmark) ==
            [scheme |-> scheme, netloc |-> netloc,
             path |-> SubSeq(rest3, 1, qmark - 1),
             query |-> SubSeq(rest3, qmark + 1, Len(rest3)),
             fragment |-> fragment]
        \* url.split("#", 1) of what follows the netloc
        SplitFragment(scheme, netloc, rest2, hash) ==
            SplitQuery(scheme, netloc, SubSeq(rest2, 1, hash - 1),
                       SubSeq(rest2, hash + 1, Len(rest2)),
                       FindFrom(SubSeq(rest2, 1, hash - 1), {"?"}, 1))
        \* _splitnetloc(url, 2) of what follows the scheme
        SplitNetloc(scheme, rest1, delim) ==
            IF StartsWith(rest1, <<"/", "/">>)
            THEN SplitFragment(scheme, SubSeq(rest1, 3, delim - 1),
                               SubSeq(rest1, delim, Len(rest1)),
                               FindFrom(SubSeq(rest1, delim, Len(rest1)), {"#"}, 1))
            ELSE SplitFragment(scheme, <<>>, rest1, FindFrom(rest1, {"#"}, 1))
    IN  IF hasScheme
        THEN SplitNetloc([k \in 1..(colon - 1) |-> ToLower(url[k])],
                         SubSeq(url, colon + 1, Len(url)),
                         FindFrom(SubSeq(url, colon + 1, Len(url)), {"/", "?", "#"}, 3))
        ELSE SplitNetloc(<<>>, url, FindFrom(url, {"/", "?", "#"}, 3))

urlunparse(parts) ==
    LET url1 == IF parts.netloc # <<>>
                   \/ (/\ parts.scheme # <<>>
                       /\ parts.scheme \in uses_netloc
                       /\ ~StartsWith(parts.path, <<"/", "/">>))
                THEN <<"/", "/">> \o parts.netloc
                     \o (IF parts.path # <<>> /\ parts.path[1] # "/"
                         THEN <<"/">> \o parts.path ELSE parts.path)
                ELSE parts.path
        url2 == IF parts.scheme # <<>> THEN parts.scheme \o <<":">> \o url1 ELSE url1
        url3 == IF parts.query # <<>> THEN url2 \o <<"?">> \o parts.query ELSE url2
    IN  IF parts.fragment # <<>> THEN url3 \o <<"#">> \o parts.fragment ELSE url3

\* The loop of posixpath.normpath over the components of the path.
RECURSIVE NormComps(_, _, _)
NormComps(comps, new_comps, initial_slashes) ==
    IF comps = <<>> THEN new_comps
    ELSE LET comp == Head(comps)
             dotdot == <<".", ".">>
         IN  IF comp = <<>> \/ comp = <<".">>
             THEN NormComps(Tail(comps), new_comps, initial_slashes)
             ELSE IF \/ comp # dotdot
                     \/ (initial_slashes = 0 /\ new_comps = <<>>)
                     \/ (new_comps # <<>> /\ new_comps[Len(new_comps)] = dotdot)
             THEN NormComps(Tail(comps), Append(new_comps, comp), initial_slashes)
             ELSE IF new_comps # <<>>
             THEN NormComps(Tail(comps), SubSeq(new_comps, 1, Len(new_comps) - 1),
                            initial_slashes)
             ELSE NormComps(Tail(comps), new_comps, initial_slashes)

normpath(path) ==
    IF path = <<>> THEN <<".">>
    ELSE LET initial_slashes ==
                 IF ~StartsWith(path, <<"/">>) THEN 0
                 ELSE IF StartsWith(path, <<"/", "/">>) /\ ~StartsWith(path, <<"/", "/", "/">>)
                 THEN 2 ELSE 1
             joined == Join(NormComps(Split(path, "/"), <<>>, initial_slashes), "/")
             normed == [k \in 1..initial_slashes |-> "/"] \o joined
         IN  IF normed = <<>> THEN <<".">> ELSE normed

NormalizeKeepsDots(maybe_file_url) == maybe_file_url

normalize_file_url(maybe_file_url) ==
    LET Rebuilt(parsed_url, normed_path) ==
            IF parsed_url.path = normed_path
            THEN maybe_file_url
            ELSE urlunparse([parsed_url EXCEPT !.path = normed_path])
        Normed(parsed_url, normed) ==
            IF EndsWith(parsed_url.path, <<"/">>)
            THEN Rebuilt(parsed_url, normed \o <<"/">>)
            ELSE Rebuilt(parsed_url, normed)
        Parsed(parsed_url) == Normed(parsed_url, normpath(parsed_url.path))
    IN  Parsed(urlparse(maybe_file_url))

\* trait_data[prop] of the expanded copy, for one property value.
ExpandKeepsValue(value, lib, environ) == value

ExpandValue(value, lib, environ) ==
    IF value.isStr
    THEN LET subbed_val == safe_substitute(value.s, 1, lib.variables, environ)
         IN  IF StartsWith(subbed_val, <<"f", "i", "l", "e", ":">>)
             THEN StrVal(normalize_file_url(subbed_val))
             ELSE StrVal(subbed_val)
    ELSE value

\* The traits of the deep copy of the version dict, expanded; the version
\* dict in the library is left as it is.
_copy_and_expand_trait_properties(entity_version_dict, lib, environ) ==
    [trait \in DOMAIN entity_version_dict.traits |->
        [prop \in DOMAIN entity_version_dict.traits[trait] |->
            ExpandValue(entity_version_dict.traits[trait][prop], lib, environ)]]

\* Returns [lib, exc, entity]: exc is "none" or the exception raised, entity
\* the Entity(version, traits, relations) returned.
NoEntity == [version |-> None, traits |-> EmptyDict, relations |-> <<>>]

Relations(entity_info, entity_dict) ==
    [k \in 1..Len(entity_dict.relations) |->
        [traits |-> entity_dict.relations[k].traits,
         entity_infos |->
            [j \in 1..Len(entity_dict.relations[k].entities) |->
                EntityInfo(entity_dict.relations[k].entities[j], None, entity_info.access)]]]

EntityOfBlankRecord(entity_info, lib, environ) ==
    IF ~_library_entity_dict(entity_info, lib)
    THEN [lib |-> lib, exc |-> "UnknownBALEntity", entity |-> NoEntity]
    ELSE LET sel == _entity_version_dict_and_tag(entity_info, lib)
         IN  IF IsNone(sel.rec)
             THEN [lib |-> sel.lib, exc |-> "InvalidEntityVersion", entity |-> NoEntity]
             ELSE [lib |-> sel.lib, exc |-> "none",
                   entity |-> [version |-> sel.tag,
                               traits |-> _copy_and_expand_trait_properties(sel.rec, lib, environ),
                               relations |-> Relations(entity_info,
                                                       lib.entities[entity_info.name])]]

entity(entity_info, lib, environ) ==
    IF ~_library_entity_dict(entity_info, lib)
    THEN [lib |-> lib, exc |-> "UnknownBALEntity", entity |-> NoEntity]
    ELSE LET sel == _entity_version_dict_and_tag(entity_info, lib)
         IN  IF IsNone(sel.rec)
             THEN [lib |-> sel.lib, exc |-> "InvalidEntityVersion", entity |-> NoEntity]
             ELSE IF TraitsIsNone(sel.rec)
             THEN [lib |-> sel.lib, exc |-> "InaccessibleEntity", entity |-> NoEntity]
             ELSE [lib |-> sel.lib, exc |-> "none",
                   entity |-> [version |-> sel.tag,
                               traits |-> _copy_and_expand_trait_properties(sel.rec, lib, environ),
                               relations |-> Relations(entity_info,
                                                       lib.entities[entity_info.name])]]

RECURSIVE FirstSupersetMatch(_, _)
FirstSupersetMatch(overrides, trait_set) ==
    IF overrides = <<>> THEN [found |-> FALSE, policy |-> EmptyDict]
    ELSE IF trait_set \subseteq Head(overrides).traitSet
    THEN [found |-> TRUE, policy |-> Head(overrides).policy]
    ELSE FirstSupersetMatch(Tail(overrides), trait_set)

\* The first override whose trait set equals trait_set, else the default:
\* [found, policy].
RECURSIVE FirstMatch(_, _)
FirstMatch(overrides, trait_set) ==
    IF overrides = <<>> THEN [found |-> FALSE, policy |-> EmptyDict]
    ELSE IF Head(overrides).traitSet = trait_set
    THEN [found |-> TRUE, policy |-> Head(overrides).policy]
    ELSE FirstMatch(Tail(overrides), trait_set)

\* Returns [exc, policy]: exc is "none" or "LookupError".
management_policy(trait_set, access, lib) ==
    LET known == access \in DOMAIN lib.managementPolicy
        overrides == IF known THEN lib.managementPolicy[access].overrideByTraitSet ELSE <<>>
        match == FirstMatch(overrides, trait_set)
    IN  IF match.found THEN [exc |-> "none", policy |-> match.policy]
        ELSE IF known /\ lib.managementPolicy[access].hasDefault
        THEN [exc |-> "none", policy |-> lib.managementPolicy[access].default]
        ELSE [exc |-> "LookupError", policy |-> EmptyDict]

\* Returns [lib, entity_info]: the library with a version holding traits_dict
\* appended, and the EntityInfo passed in, whose version is now the new tag
\* (the object returned is the one passed in).
CreateSkipsEqualTraits(entity_info, traits_dict, lib) ==
    LET lib1 == _ensure_library_entity_dict(entity_info, lib)
        versions_list == lib1.entities[entity_info.name].versions
        n == Len(versions_list)
    IN  IF n > 0 /\ versions_list[n] = TraitsRecord(traits_dict)
        THEN [lib |-> lib1, entity_info |-> [entity_info EXCEPT !.version = n]]
        ELSE [lib |-> [lib1 EXCEPT !.entities[entity_info.name].versions =
                           Append(versions_list, TraitsRecord(traits_dict))],
              entity_info |-> [entity_info EXCEPT !.version = n + 1]]

create_or_update_entity(entity_info, traits_dict, lib) ==
    LET next == _next_entity_version_dict_and_tag(entity_info, lib)
    IN  [lib |-> [next.lib EXCEPT
                      !.entities[entity_info.name].versions[next.tag] =
                          TraitsRecord(traits_dict)],
         entity_info |-> [entity_info EXCEPT !.version = next.tag]]

VersionsOldestFirst(entity_info, include_latest, lib) ==
    IF ~_library_entity_dict(entity_info, lib)
    THEN [exc |-> "UnknownBALEntity", results |-> <<>>]
    ELSE [exc |-> "none",
          results |-> (IF include_latest
                       THEN <<EntityInfo(entity_info.name, None, entity_info.access)>>
                       ELSE <<>>)
                      \o [k \in 1..Len(lib.entities[entity_info.name].versions) |->
                             EntityInfo(entity_info.name, k, entity_info.access)]]

\* bal.versions: [exc, results], newest first.
versions(entity_info, include_latest, lib) ==
    IF ~_library_entity_dict(entity_info, lib)
    THEN [exc |-> "UnknownBALEntity", results |-> <<>>]
    ELSE LET num_versions == Len(lib.entities[entity_info.name].versions)
             latest == IF include_latest
                       THEN <<EntityInfo(entity_info.name, None, entity_info.access)>>
                       ELSE <<>>
         IN  [exc |-> "none",
              results |-> latest \o [k \in 1..num_versions |->
                             EntityInfo(entity_info.name, num_versions + 1 - k,
                                        entity_info.access)]]

DictHasTraitIds(data, traits) == \A trait_id \in DOMAIN traits : trait_id \in DOMAIN data

_dict_has_traits(data, traits) ==
    \A trait_id \in DOMAIN traits :
        /\ trait_id \in DOMAIN data
        /\ \A property_key \in DOMAIN traits[trait_id] :
               /\ property_key \in DOMAIN data[trait_id]
               /\ data[trait_id][property_key] = traits[trait_id][property_key]

_entity_has_trait_set(entity_data, trait_set) ==
    \A trait \in trait_set : trait \in DOMAIN entity_data.traits

RECURSIVE SkipsBrokenReferences(_, _, _, _, _)
SkipsBrokenReferences(entity_infos, result_trait_set, lib, environ, results) ==
    IF entity_infos = <<>> THEN [lib |-> lib, exc |-> "none", results |-> results]
    ELSE LET Checked(relation_data) ==
                 IF \/ relation_data.exc # "none"
                    \/ /\ result_trait_set # {}
                       /\ ~_entity_has_trait_set(relation_data.entity, result_trait_set)
                 THEN SkipsBrokenReferences(Tail(entity_infos), result_trait_set,
                                            relation_data.lib, environ, results)
                 ELSE SkipsBrokenReferences(Tail(entity_infos), result_trait_set,
                                            relation_data.lib, environ,
                                            Append(results, Head(entity_infos)))
         IN  Checked(entity(Head(entity_infos), lib, environ))

\* The inner loop of related_references, over relation.entity_infos.
RECURSIVE RelatedEntityInfos(_, _, _, _, _)
RelatedEntityInfos(entity_infos, result_trait_set, lib, environ, results) ==
    IF entity_infos = <<>> THEN [lib |-> lib, exc |-> "none", results |-> results]
    ELSE LET Checked(relation_data) ==
                 IF relation_data.exc # "none"
                 THEN [lib |-> relation_data.lib, exc |-> relation_data.exc,
                       results |-> <<>>]
                 ELSE IF /\ result_trait_set # {}
                         /\ ~_entity_has_trait_set(relation_data.entity, result_trait_set)
                 THEN RelatedEntityInfos(Tail(entity_infos), result_trait_set,
                                         relation_data.lib, environ, results)
                 ELSE RelatedEntityInfos(Tail(entity_infos), result_trait_set,
                                         relation_data.lib, environ,
                                         Append(results, Head(entity_infos)))
         IN  Checked(entity(Head(entity_infos), lib, environ))

\* The outer loop of related_references, over entity_data.relations.
RECURSIVE RelatedRelations(_, _, _, _, _, _)
RelatedRelations(relations, requested_relation_traits, result_trait_set, lib, environ, results) ==
    IF relations = <<>> THEN [lib |-> lib, exc |-> "none", results |-> results]
    ELSE IF ~_dict_has_traits(Head(relations).traits, requested_relation_traits)
    THEN RelatedRelations(Tail(relations), requested_relation_traits, result_trait_set,
                          lib, environ, results)
    ELSE LET Checked(inner) ==
                 IF inner.exc # "none" THEN inner
                 ELSE RelatedRelations(Tail(relations), requested_relation_traits,
                                       result_trait_set, inner.lib, environ, inner.results)
         IN  Checked(RelatedEntityInfos(Head(relations).entity_infos, result_trait_set,
                                        lib, environ, results))

\* bal.related_references: [lib, exc, results].
related_references(entity_info, requested_relation_traits, result_trait_set, lib, environ) ==
    LET Checked(entity_data) ==
            IF entity_data.exc # "none"
            THEN [lib |-> entity_data.lib, exc |-> entity_data.exc, results |-> <<>>]
            ELSE RelatedRelations(entity_data.entity.relations, requested_relation_traits,
                                  result_trait_set, entity_data.lib, environ, <<>>)
    IN  Checked(entity(entity_info, lib, environ))

\* ------------------------------------------------------ the loaded library

VersionTrait_kId == "openassetio-mediacreation:lifecycle.Version"

\* Entity names of the library document, and one name it does not hold.
nA == <<"a">>
nZ == <<"z">>
nR == <<"r">>
nM == <<"m">>
nNew == <<"n">>

Names == {nA, nZ, nR, nM, nNew}

AccessNames == {"read", "write", "managerDriven"}

\* os.environ
Environ == (<<"e">> :> <<"E">>) @@ (<<"v">> :> <<"X">>)

\* The library document: an entity with two versions (the first with an
\* empty traits dict, {"traits": {}}), one with none, a
\* read-only one (blank write and managerDriven overrides) and a manager
\* driven one (null read override, overrides with traits for managerDriven
\* and write); with the variables load_library adds to those of the document.
LibraryDocument ==
    [entities |->
        (nA :> [versions |->
                    << TraitsRecord(EmptyDict),
                       TraitsRecord([t1 |-> [p |-> StrVal(<<"$", "v">>)], t2 |-> EmptyDict]) >>,
                relations |->
                    << [traits |-> [rel |-> [kind |-> IntVal(1)]], entities |-> <<nR>>],
                       [traits |-> [rel |-> [kind |-> IntVal(2)]], entities |-> <<nR, nM>>],
                       [traits |-> [rel |-> [kind |-> IntVal(1), w |-> IntVal(1)],
                                    t9 |-> EmptyDict],
                        entities |-> <<nA, nR>>],
                       [traits |-> [rel |-> [kind |-> IntVal(4)]], entities |-> <<nR, nNew>>] >>,
                overrideByAccess |-> EmptyDict])
     @@ (nZ :> [versions |-> <<>>, relations |-> <<>>, overrideByAccess |-> EmptyDict])
     @@ (nR :> [versions |-> << TraitsRecord([t1 |-> [p |-> IntVal(1)]]) >>,
                relations |-> <<>>,
                overrideByAccess |-> [write |-> BlankRecord, managerDriven |-> BlankRecord]])
     @@ (nM :> [versions |-> <<>>,
                relations |-> <<>>,
                overrideByAccess |->
                    [read |-> NullRecord,
                     managerDriven |-> TraitsRecord([t1 |-> [p |-> StrVal(<<"m">>)]]),
                     write |-> TraitsRecord([t2 |-> EmptyDict])]]),
     managementPolicy |->
        [read |-> [hasDefault |-> TRUE,
                   default |-> [managed |-> EmptyDict],
                   overrideByTraitSet |->
                       << [traitSet |-> {"t1", "t3"}, policy |-> [exact |-> EmptyDict]] >>],
         write |-> [hasDefault |-> FALSE,
                    default |-> EmptyDict,
                    overrideByTraitSet |->
                        << [traitSet |-> {"t1"}, policy |-> [managed |-> EmptyDict]],
                           [traitSet |-> {"t1", "t2"},
                            policy |-> [managed |-> EmptyDict, both |-> EmptyDict]],
                           [traitSet |-> {"t3"}, policy |-> EmptyDict] >>]],
     variables |->
        (<<"v">> :> <<"L">>)
     @@ (<<"b", "a", "l", "_", "l", "i", "b", "r", "a", "r", "y", "_", "p", "a", "t", "h">>
            :> <<"/", "l", "/", "x">>)
     @@ (<<"b", "a", "l", "_", "l", "i", "b", "r", "a", "r", "y", "_", "d", "i", "r">>
            :> <<"/", "l">>)
     @@ (<<"b", "a", "l", "_", "l", "i", "b", "r", "a", "r", "y", "_", "d", "i", "r", "_",
           "u", "r", "l">>
            :> <<"f", "i", "l", "e", ":", "/", "/", "/", "l">>)]

\* The number of version records in the library.
RECURSIVE CountVersions(_, _)
CountVersions(lib, names) ==
    IF names = {} THEN 0
    ELSE LET nm == CHOOSE x \in names : TRUE
         IN  Len(lib.entities[nm].versions) + CountVersions(lib, names \ {nm})

TotalVersions(lib) == CountVersions(lib, DOMAIN lib.entities)

\* The traits dicts the callers publish.
PublishedTraits ==
    { [t1 |-> [p |-> IntVal(2)]],
      [t1 |-> [p |-> StrVal(<<"$", "v">>)], t2 |-> EmptyDict] }

\* The locators the callers publish to.
PublishTargets ==
    { EntityInfo(nm, None, "write") : nm \in Names } \cup { EntityInfo(nA, 1, "write") }

\* The most pieces a string property is made of.
MaxPieces == 3

\* The pieces of the string properties: a separator, and the tokens $name and
\* ${name} for a name the library and the environment define (v), one only
\* the environment defines (e) and one neither defines (u).
TemplatePieces ==
    { <<"/">>, <<"$", "v">>, <<"$", "{", "v", "}">>, <<"$", "e">>, <<"$", "{", "e", "}">>,
      <<"$", "u">>, <<"$", "{", "u", "}">> }

Locators == { EntityInfo(nm, v, a) : nm \in Names, v \in 0..MaxTag, a \in AccessNames }

\* ------------------------------------------- loading a library, settings

\* os.path.dirname(p): p up to its last "/", without the slashes that end it
\* unless it holds nothing else.
dirname(p) ==
    LET RECURSIVE Head_(_)
        Head_(s) == IF s = <<>> \/ s[Len(s)] = "/" THEN s
                    ELSE Head_(SubSeq(s, 1, Len(s) - 1))
        RECURSIVE RStrip_(_)
        RStrip_(s) == IF s # <<>> /\ s[Len(s)] = "/" THEN RStrip_(SubSeq(s, 1, Len(s) - 1))
                      ELSE s
        Stripped(head) == IF RStrip_(head) = <<>> THEN head ELSE RStrip_(head)
    IN  Stripped(Head_(p))

\* os.path.abspath(path), the working directory being /l
abspath(path) ==
    normpath(IF StartsWith(path, <<"/">>) THEN path ELSE <<"/", "l", "/">> \o path)

\* The three variables load_library assigns.
ImplicitVariables(lib_path, lib_dir, lib_dir_url) ==
    (<<"b", "a", "l", "_", "l", "i", "b", "r", "a", "r", "y", "_", "p", "a", "t", "h">>
        :> lib_path)
 @@ (<<"b", "a", "l", "_", "l", "i", "b", "r", "a", "r", "y", "_", "d", "i", "r">>
        :> lib_dir)
 @@ (<<"b", "a", "l", "_", "l", "i", "b", "r", "a", "r", "y", "_", "d", "i", "r", "_",
       "u", "r", "l">>
        :> lib_dir_url)

\* The files: the library document (as written, without the variables
\* load_library adds), a document that declares bal_library_dir and a
\* variable of its own, a document without "variables", and a file that is
\* not JSON, by absolute path.  A path that is not here names no file.
Files ==
    (<<"/", "l", "/", "x">> :>
        [json |-> TRUE,
         document |-> [LibraryDocument EXCEPT !.variables = (<<"v">> :> <<"L">>)]])
 @@ (<<"/", "l", "/", "d">> :>
        [json |-> TRUE,
         document |->
            [entities |-> (nZ :> [versions |-> << TraitsRecord(EmptyDict) >>,
                                  relations |-> <<>>,
                                  overrideByAccess |-> EmptyDict]),
             managementPolicy |-> EmptyDict,
             variables |-> ImplicitVariables(<<"p">>, <<"/", "m">>, <<"u">>)
                           @@ (<<"w">> :> <<"W">>)]])
 @@ (<<"/", "l", "/", "y">> :>
        [json |-> TRUE,
         document |-> [entities |-> EmptyDict, managementPolicy |-> EmptyDict]])
 @@ (<<"/", "l", "/", "b">> :> [json |-> FALSE, document |-> EmptyDict])

\* The variant of load_library that keeps what the document declares.
LoadKeepsDeclared(path) ==
    IF path = <<>> THEN [exc |-> "UnboundLocalError", library |-> EmptyDict]
    ELSE IF abspath(path) \notin DOMAIN Files
    THEN [exc |-> "FileNotFoundError", library |-> EmptyDict]
    ELSE IF ~Files[abspath(path)].json
    THEN [exc |-> "JSONDecodeError", library |-> EmptyDict]
    ELSE LET Loaded(document, lib_path) ==
                 [exc |-> "none",
                  library |->
                      Put(document, "variables",
                          Get(document, "variables", EmptyDict)
                          @@ ImplicitVariables(lib_path, dirname(lib_path),
                                               <<"f", "i", "l", "e", ":", "/", "/">>
                                                   \o dirname(lib_path)))]
         IN  Loaded(Files[abspath(path)].document, abspath(path))

\* Returns [exc, library].  With an empty path nothing is assigned to
\* lib_dir_url, which the last assignment reads.
load_library(path) ==
    IF path = <<>> THEN [exc |-> "UnboundLocalError", library |-> EmptyDict]
    ELSE IF abspath(path) \notin DOMAIN Files
    THEN [exc |-> "FileNotFoundError", library |-> EmptyDict]
    ELSE IF ~Files[abspath(path)].json
    THEN [exc |-> "JSONDecodeError", library |-> EmptyDict]
    ELSE LET Loaded(document, lib_path) ==
                 [exc |-> "none",
                  library |->
                      Put(document, "variables",
                          ImplicitVariables(lib_path, dirname(lib_path),
                                            <<"f", "i", "l", "e", ":", "/", "/">>
                                                \o dirname(lib_path))
                          @@ Get(document, "variables", EmptyDict))]
         IN  Loaded(Files[abspath(path)].document, abspath(path))

__make_default_settings ==
    [library_path |-> StrVal(<<>>),
     simulated_query_latency_ms |-> IntVal(10),
     entity_reference_url_scheme |-> StrVal(<<"b", "a", "l">>)]

\* Returns the exception raised, or "none".
__validate_settings(managerSettings) ==
    IF /\ "library_path" \in DOMAIN managerSettings
       /\ ~managerSettings["library_path"].isStr
    THEN "ValueError"
    ELSE IF /\ "simulated_query_latency_ms" \in DOMAIN managerSettings
            /\ \/ managerSettings["simulated_query_latency_ms"].isStr
               \/ managerSettings["simulated_query_latency_ms"].n < 0
    THEN "ValueError"
    ELSE IF /\ "entity_reference_url_scheme" \in DOMAIN managerSettings
            /\ LET scheme == managerSettings["entity_reference_url_scheme"]
               IN  \/ ~scheme.isStr
                   \/ scheme.s = <<>>
                   \/ \E k \in 1..Len(scheme.s) :
                          scheme.s[k] \notin Lower \cup Upper \cup Digits \cup {"-"}
    THEN "ValueError"
    ELSE IF \E key \in DOMAIN managerSettings : key \notin DOMAIN __make_default_settings
    THEN "KeyError"
    ELSE "none"

\* Returns [exc, settings, library]: what the manager holds when initialize
\* returns or raises.
initialize(managerSettings, old_settings, old_library, environ) ==
    LET BAL_LIBRARY_PATH == <<"B", "A", "L", "_", "L", "I", "B", "R", "A", "R", "Y", "_",
                              "P", "A", "T", "H">>
        Loaded(new_settings, loaded) ==
            IF loaded.exc # "none"
            THEN [exc |-> loaded.exc, settings |-> new_settings, library |-> EmptyDict]
            ELSE [exc |-> "none", settings |-> new_settings, library |-> loaded.library]
        WithPath(library_path) ==
            IF library_path = <<>>
            THEN [exc |-> "ConfigurationException", settings |-> old_settings,
                  library |-> old_library]
            ELSE Loaded(Put(managerSettings @@ old_settings, "library_path",
                            StrVal(library_path)),
                        load_library(library_path))
        FromSettings(library_path) ==
            IF library_path = <<>>
            THEN WithPath(Get(environ, BAL_LIBRARY_PATH, <<>>))
            ELSE WithPath(library_path)
    IN  IF __validate_settings(managerSettings) # "none"
        THEN [exc |-> __validate_settings(managerSettings), settings |-> old_settings,
              library |-> old_library]
        ELSE FromSettings(Get(managerSettings, "library_path",
                              old_settings["library_path"]).s)

\* ------------------------------------------------- the engine's operations

\* The manager is synchronous and single-threaded: a call runs to its end,
\* and the caller reads its result before it makes the next call.  call
\* holds the last call made and what it returned, or Idle.
Idle == [op |-> "idle"]

\* The manager has been initialized with the path of the library document.
Init ==
    /\ library = LibraryDocument
    /\ call = Idle
    /\ settings = Put(__make_default_settings, "library_path",
                      StrVal(<<"/", "l", "/", "x">>))

\* The caller has read the result of the last call.
Return ==
    /\ UNCHANGED settings
    /\ call.op # "idle"
    /\ call' = Idle
    /\ UNCHANGED library

\* bal.exists(entity_info, library)
Exists(entity_info) ==
    /\ UNCHANGED settings
    /\ call.op = "idle"
    /\ LET r == exists(entity_info, library)
       IN  /\ library' = r.lib
           /\ call' = [op |-> "exists", entity_info |-> entity_info, value |-> r.value]

\* bal.entity(entity_info, library)
Entity(entity_info) ==
    /\ UNCHANGED settings
    /\ call.op = "idle"
    /\ LET r == entity(entity_info, library, Environ)
       IN  /\ library' = r.lib
           /\ call' = [op |-> "entity", entity_info |-> entity_info,
                       exc |-> r.exc, entity |-> r.entity]

\* bal.create_or_update_entity(entity_info, traits_dict, library)
CreateOrUpdate(entity_info, traits_dict) ==
    /\ UNCHANGED settings
    /\ call.op = "idle"
    /\ TotalVersions(library) < MaxVersions
    /\ LET r == create_or_update_entity(entity_info, traits_dict, library)
       IN  /\ library' = r.lib
           /\ call' = [op |-> "create_or_update_entity", entity_info |-> entity_info,
                       traits_dict |-> traits_dict, result |-> r.entity_info,
                       \* the caller's EntityInfo after the call: the version is
                       \* assigned to the object passed in, which is returned
                       argument |-> r.entity_info]

\* bal._copy_and_expand_trait_properties(entity_version_dict, library)
\* for a library with the given "variables" and the given os.environ
ExpandTraitProperties(entity_version_dict, variables, environ) ==
    /\ UNCHANGED settings
    /\ call.op = "idle"
    /\ library' = library
    /\ call' = [op |-> "_copy_and_expand_trait_properties",
                entity_version_dict |-> entity_version_dict,
                variables |-> variables, environ |-> environ,
                expanded |-> _copy_and_expand_trait_properties(
                                 entity_version_dict, [variables |-> variables], environ)]

\* bal.management_policy(trait_set, access, library)
ManagementPolicy(trait_set, access) ==
    /\ UNCHANGED settings
    /\ call.op = "idle"
    /\ LET r == management_policy(trait_set, access, library)
       IN  /\ library' = library
           /\ call' = [op |-> "management_policy", trait_set |-> trait_set,
                       access |-> access, exc |-> r.exc, policy |-> r.policy]

\* bal.related_references(entity_info, requested_relation_traits,
\* result_trait_set, library)
RelatedReferences(entity_info, requested_relation_traits, result_trait_set) ==
    /\ UNCHANGED settings
    /\ call.op = "idle"
    /\ LET r == related_references(entity_info, requested_relation_traits,
                                   result_trait_set, library, Environ)
       IN  /\ library' = r.lib
           /\ call' = [op |-> "related_references", entity_info |-> entity_info,
                       traits |-> requested_relation_traits,
                       result_trait_set |-> result_trait_set,
                       exc |-> r.exc, results |-> r.results]

Next ==
    \/ \E entity_info \in Locators : Exists(entity_info)
    \/ \E entity_info \in Locators : Entity(entity_info)
    \/ \E entity_info \in PublishTargets, traits_dict \in PublishedTraits :
           CreateOrUpdate(entity_info, traits_dict)
    \/ \E trait_set \in {{"t1"}, {"t3"}, {"t1", "t2"}, {"t4"}}, access \in AccessNames :
           ManagementPolicy(trait_set, access)
    \/ \E pieces \in UNION { [1..k -> TemplatePieces] : k \in 1..MaxPieces } :
           ExpandTraitProperties(TraitsRecord([t1 |-> [p |-> StrVal(Flatten(pieces)),
                                                       q |-> IntVal(1)],
                                               t2 |-> EmptyDict]),
                                 library.variables, Environ)
    \/ \E pieces \in UNION { [1..k -> {<<"a">>, <<"/">>, <<".">>, <<"$">>,
                                        <<"$", "{", "a", "}">>,
                                        <<"f", "i", "l", "e", ":">>}] : k \in 1..MaxPieces } :
           ExpandTraitProperties(TraitsRecord([t1 |-> [p |-> StrVal(Flatten(pieces)),
                                                       q |-> IntVal(1)]]),
                                 EmptyDict, EmptyDict)
    \/ \E entity_info \in Locators,
          requested_relation_traits \in
              { [rel |-> EmptyDict], [rel |-> [kind |-> IntVal(1)]],
                [rel |-> [kind |-> IntVal(4)]] },
          result_trait_set \in {{}, {"t2"}} :
           RelatedReferences(entity_info, requested_relation_traits, result_trait_set)
    \/ Return

Spec == Init /\ [][Next]_vars

\* ------------------------------------------- int(), str(), urllib.parse_qs

DigitSeq == <<"0", "1", "2", "3", "4", "5", "6", "7", "8", "9">>

DigitValue(c) == (CHOOSE k \in 1..10 : DigitSeq[k] = c) - 1

\* str(n) for an int n >= 0.
RECURSIVE IntToStr(_)
IntToStr(n) ==
    IF n < 10 THEN <<DigitSeq[n + 1]>>
    ELSE IntToStr(n \div 10) \o <<DigitSeq[(n % 10) + 1]>>

\* str(version) of an Optional[int].
PyStr(version) == IF version = None THEN <<"N", "o", "n", "e">> ELSE IntToStr(version)

\* str.strip() of the whitespace the model's strings hold, the space.
RECURSIVE Strip(_)
Strip(s) ==
    IF s # <<>> /\ s[1] = " " THEN Strip(Tail(s))
    ELSE IF s # <<>> /\ s[Len(s)] = " " THEN Strip(SubSeq(s, 1, Len(s) - 1))
    ELSE s

RECURSIVE DigitsToInt(_, _)
DigitsToInt(s, acc) ==
    IF s = <<>> THEN acc
    ELSE IF s[1] = "_" THEN DigitsToInt(Tail(s), acc)
    ELSE DigitsToInt(Tail(s), 10 * acc + DigitValue(s[1]))

\* int(s), base 10: surrounding whitespace, one optional sign, then digits,
\* with single underscores allowed between digits.  [ok, value]; ok is FALSE
\* where int raises ValueError.
PyInt(s) ==
    LET WellFormed(body) ==
            /\ body # <<>>
            /\ \A k \in 1..Len(body) : body[k] \in Digits \cup {"_"}
            /\ body[1] # "_"
            /\ body[Len(body)] # "_"
            /\ \A k \in 1..(Len(body) - 1) : ~(body[k] = "_" /\ body[k + 1] = "_")
        Signed(negative, body) ==
            IF ~WellFormed(body) THEN [ok |-> FALSE, value |-> 0]
            ELSE IF negative THEN [ok |-> TRUE, value |-> 0 - DigitsToInt(body, 0)]
            ELSE [ok |-> TRUE, value |-> DigitsToInt(body, 0)]
        Stripped(stripped) ==
            IF stripped # <<>> /\ stripped[1] \in {"+", "-"}
            THEN Signed(stripped[1] = "-", Tail(stripped))
            ELSE Signed(FALSE, stripped)
    IN  Stripped(Strip(s))

HexSeq == <<"0", "1", "2", "3", "4", "5", "6", "7", "8", "9", "a", "b", "c", "d", "e", "f">>

HexUpperSeq == <<"0", "1", "2", "3", "4", "5", "6", "7", "8", "9", "A", "B", "C", "D", "E", "F">>

HexDigits == {HexSeq[k] : k \in 1..16} \cup {HexUpperSeq[k] : k \in 1..16}

HexValue(c) == (CHOOSE k \in 1..16 : HexSeq[k] = c \/ HexUpperSeq[k] = c) - 1

\* The characters with the codes 32..91.
Ascii ==
    <<" ", "!", "\"", "#", "$", "%", "&", "'", "(", ")", "*", "+", ",", "-", ".", "/",
      "0", "1", "2", "3", "4", "5", "6", "7", "8", "9", ":", ";", "<", "=", ">", "?",
      "@", "A", "B", "C", "D", "E", "F", "G", "H", "I", "J", "K", "L", "M", "N", "O",
      "P", "Q", "R", "S", "T", "U", "V", "W", "X", "Y", "Z", "[">>

\* urllib.parse.unquote: %xx becomes the character with that code, and a "%"
\* that two hex digits do not follow stays.  The model's strings hold escapes
\* of the codes 32..91 only.
RECURSIVE unquote(_)
unquote(string) ==
    IF string = <<>> THEN <<>>
    ELSE IF /\ string[1] = "%"
            /\ Len(string) >= 3
            /\ string[2] \in HexDigits
            /\ string[3] \in HexDigits
            /\ 16 * HexValue(string[2]) + HexValue(string[3]) \in 32..91
    THEN <<Ascii[16 * HexValue(string[2]) + HexValue(string[3]) - 31]>>
             \o unquote(SubSeq(string, 4, Len(string)))
    ELSE <<string[1]>> \o unquote(Tail(string))

\* str.replace("+", " ")
PlusToSpace(s) == [k \in 1..Len(s) |-> IF s[k] = "+" THEN " " ELSE s[k]]

\* urllib.parse.parse_qsl(qs) with keep_blank_values and strict_parsing off:
\* the list of (name, value) of the fields that have an "=" and a value.
RECURSIVE parse_qsl(_)
parse_qsl(query_args) ==
    IF query_args = <<>> THEN <<>>
    ELSE LET name_value == Head(query_args)
             eq == FindFrom(name_value, {"="}, 1)
         IN  IF eq >= Len(name_value)
             THEN parse_qsl(Tail(query_args))
             ELSE << [name |-> unquote(PlusToSpace(SubSeq(name_value, 1, eq - 1))),
                      value |-> unquote(PlusToSpace(
                                    SubSeq(name_value, eq + 1, Len(name_value))))] >>
                      \o parse_qsl(Tail(query_args))

\* The values of the pairs named name, in order.
RECURSIVE ValuesOf(_, _)
ValuesOf(pairs, name) ==
    IF pairs = <<>> THEN <<>>
    ELSE IF Head(pairs).name = name THEN <<Head(pairs).value>> \o ValuesOf(Tail(pairs), name)
    ELSE ValuesOf(Tail(pairs), name)

\* urllib.parse.parse_qs(qs): a dict from each name to the list of its values.
parse_qs(qs) ==
    LET Collect(pairs) ==
            [name \in {pairs[k].name : k \in 1..Len(pairs)} |-> ValuesOf(pairs, name)]
    IN  Collect(parse_qsl(IF qs = <<>> THEN <<>> ELSE Split(qs, "&")))

\* ---------------------------------- BasicAssetLibraryInterface: references

kAccessNames == <<"read", "write", "createRelated", "required", "managerDriven">>

kRead == 0
kWrite == 1
kCreateRelated == 2
kManagerDriven == 4

VERSION_TAG_LATEST == <<"l", "a", "t", "e", "s", "t">>

\* settings["entity_reference_url_scheme"], by default "bal", and ":///"
__entity_refrence_prefix == <<"b", "a", "l", ":", "/", "/", "/">>

\* Returns [exc, version]: exc is "none" or "MalformedEntityReference".
__version_from_query_params(query_params) ==
    LET Checked(v) ==
            IF ~v.ok THEN [exc |-> "MalformedEntityReference", version |-> None]
            ELSE IF v.value < 1 THEN [exc |-> "MalformedEntityReference", version |-> None]
            ELSE [exc |-> "none", version |-> v.value]
        Parsed(v_str) ==
            IF v_str = VERSION_TAG_LATEST THEN [exc |-> "none", version |-> None]
            ELSE Checked(PyInt(v_str))
    IN  IF <<"v">> \notin DOMAIN query_params THEN [exc |-> "none", version |-> None]
        ELSE Parsed(query_params[<<"v">>][Len(query_params[<<"v">>])])

NoEntityInfo == EntityInfo(<<>>, None, "read")

\* Returns [exc, entity_info].
__parse_entity_ref(entity_ref, access) ==
    LET Named(name, version) ==
            IF version.exc # "none"
            THEN [exc |-> version.exc, entity_info |-> NoEntityInfo]
            ELSE [exc |-> "none",
                  entity_info |-> EntityInfo(name, version.version, kAccessNames[access + 1])]
        Parts(uri_parts) ==
            IF Len(uri_parts.path) <= 1
            THEN [exc |-> "MalformedEntityReference", entity_info |-> NoEntityInfo]
            ELSE IF uri_parts.query # <<>>
            THEN Named(From(uri_parts.path, 1),
                       __version_from_query_params(parse_qs(uri_parts.query)))
            ELSE Named(From(uri_parts.path, 1), [exc |-> "none", version |-> None])
    IN  Parts(urlparse(entity_ref))

__build_entity_ref(entity_info) ==
    IF entity_info.version # None
    THEN __entity_refrence_prefix \o entity_info.name
             \o <<"?", "v", "=">> \o IntToStr(entity_info.version)
    ELSE __entity_refrence_prefix \o entity_info.name

\* ------------------------------ BasicAssetLibraryInterface: batch elements

StableTrait_kId == "openassetio-mediacreation:lifecycle.Stable"

RelationshipTrait_kId == "openassetio-mediacreation:usage.Relationship"

EntityVersionsRelationshipSpecification_kTraitSet ==
    {RelationshipTrait_kId, VersionTrait_kId}

StableEntityVersionsRelationshipSpecification_kTraitSet ==
    {RelationshipTrait_kId, VersionTrait_kId, StableTrait_kId}

StableReferenceRelationshipSpecification_kTraitSet ==
    {RelationshipTrait_kId, StableTrait_kId}

\* successCallback(idx, value) and errorCallback(idx, BatchElementError(code, msg))
Success(idx, value) == [idx |-> idx, ok |-> TRUE, value |-> value]

Error(idx, code) == [idx |-> idx, ok |-> FALSE, code |-> code]

\* What one pass of a handler's loop does: [lib, events, raised], the library
\* afterwards, the callbacks made, and "none" or the exception that leaves
\* the handler.
Done(lib, events) == [lib |-> lib, events |-> events, raised |-> "none"]

__handle_exception(exc, idx, lib) ==
    IF exc = "MalformedEntityReference"
    THEN Done(lib, <<Error(idx, "kMalformedEntityReference")>>)
    ELSE IF exc = "UnknownBALEntity"
    THEN Done(lib, <<Error(idx, "kEntityResolutionError")>>)
    ELSE IF exc = "InvalidEntityVersion"
    THEN Done(lib, <<Error(idx, "kEntityResolutionError")>>)
    ELSE IF exc = "InaccessibleEntity"
    THEN Done(lib, <<Error(idx, "kEntityAccessError")>>)
    ELSE [lib |-> lib, events |-> <<>>, raised |-> exc]

\* The variant of __validate_access that reports the unsupported access mode
\* once, for the first element.
ValidateAccessReportsOnce(allowed_access, access, batch_elems) ==
    IF access \in allowed_access THEN [ok |-> TRUE, events |-> <<>>]
    ELSE [ok |-> FALSE,
          events |-> [k \in 1..(IF batch_elems = <<>> THEN 0 ELSE 1) |->
                         Error(k - 1, "kEntityAccessError")]]

\* Returns TRUE, or FALSE with an error for every element: [ok, events].
__validate_access(allowed_access, access, batch_elems) ==
    IF access \in allowed_access THEN [ok |-> TRUE, events |-> <<>>]
    ELSE [ok |-> FALSE,
          events |-> [k \in 1..Len(batch_elems) |-> Error(k - 1, "kEntityAccessError")]]

\* VersionTrait(traits_data).getSpecifiedTag(): the property, or "" for None.
getSpecifiedTag(traits_data) ==
    IF /\ VersionTrait_kId \in DOMAIN traits_data
       /\ "specifiedTag" \in DOMAIN traits_data[VersionTrait_kId]
    THEN traits_data[VersionTrait_kId]["specifiedTag"].s
    ELSE <<>>

SelectSeqVersion(seq, v) ==
    SelectSeq(seq, LAMBDA i : i.version # None /\ i.version = v)

LatestTakesLastVersion(entity_info, relationship_traits_data, lib) ==
    LET Selected(all, specified_version, v) ==
            IF all.exc # "none" THEN [exc |-> all.exc, relations |-> <<>>]
            ELSE IF specified_version = <<>> THEN [exc |-> "none", relations |-> all.results]
            ELSE IF specified_version = VERSION_TAG_LATEST
            THEN IF all.results = <<>>
                 THEN [exc |-> "IndexError", relations |-> <<>>]
                 ELSE [exc |-> "none", relations |-> <<all.results[Len(all.results)]>>]
            ELSE IF ~v.ok THEN [exc |-> "ValueError", relations |-> <<>>]
            ELSE [exc |-> "none", relations |-> SelectSeqVersion(all.results, v.value)]
    IN  Selected(versions(entity_info, StableTrait_kId \notin DOMAIN relationship_traits_data,
                          lib),
                 getSpecifiedTag(relationship_traits_data),
                 PyInt(getSpecifiedTag(relationship_traits_data)))

\* Returns [exc, relations].
__get_relations_entity_versions(entity_info, relationship_traits_data, lib) ==
    LET Selected(all, specified_version, v) ==
            IF all.exc # "none" THEN [exc |-> all.exc, relations |-> <<>>]
            ELSE IF specified_version = <<>> THEN [exc |-> "none", relations |-> all.results]
            ELSE IF specified_version = VERSION_TAG_LATEST
            THEN IF all.results = <<>>
                 THEN [exc |-> "IndexError", relations |-> <<>>]
                 ELSE [exc |-> "none", relations |-> <<all.results[1]>>]
            ELSE IF ~v.ok THEN [exc |-> "ValueError", relations |-> <<>>]
            ELSE [exc |-> "none", relations |-> SelectSeqVersion(all.results, v.value)]
    IN  Selected(versions(entity_info, StableTrait_kId \notin DOMAIN relationship_traits_data,
                          lib),
                 getSpecifiedTag(relationship_traits_data),
                 PyInt(getSpecifiedTag(relationship_traits_data)))

\* Returns [exc, relations].
__get_relation_stable(entity_info, lib) ==
    LET First(all) ==
            IF all.exc # "none" THEN [exc |-> all.exc, relations |-> <<>>]
            ELSE IF all.results = <<>> THEN [exc |-> "IndexError", relations |-> <<>>]
            ELSE [exc |-> "none", relations |-> <<all.results[1]>>]
    IN  IF entity_info.version = None
        THEN First(versions(entity_info, FALSE, lib))
        ELSE [exc |-> "none", relations |-> <<entity_info>>]

\* Returns [lib, exc, relations].
__get_relations(entity_info, relationship_traits_data, result_trait_set, lib, environ) ==
    LET relationship_trait_set == DOMAIN relationship_traits_data
        Versions(r) == [lib |-> lib, exc |-> r.exc, relations |-> r.relations]
        References(r) == [lib |-> r.lib, exc |-> r.exc, relations |-> r.results]
    IN  IF relationship_trait_set \in
               { EntityVersionsRelationshipSpecification_kTraitSet,
                 StableEntityVersionsRelationshipSpecification_kTraitSet }
        THEN Versions(__get_relations_entity_versions(entity_info,
                                                      relationship_traits_data, lib))
        ELSE IF relationship_trait_set = StableReferenceRelationshipSpecification_kTraitSet
        THEN Versions(__get_relation_stable(entity_info, lib))
        ELSE References(related_references(entity_info, relationship_traits_data,
                                           result_trait_set, lib, environ))

\* BALEntityReferencePagerInterface(latency, page_size, entity_references):
\* the pages it caches, and its page number.
BALEntityReferencePagerInterface(page_size, entity_references) ==
    [page_num |-> 0,
     pages |-> [k \in 1..((Len(entity_references) + page_size - 1) \div page_size) |->
                   SubSeq(entity_references, (k - 1) * page_size + 1,
                          IF k * page_size < Len(entity_references)
                          THEN k * page_size ELSE Len(entity_references))]]

\* ------------------------------ BasicAssetLibraryInterface: batch handlers
\* Each handler returns [lib, events, raised].

RECURSIVE entityExistsFrom(_, _, _, _)
entityExistsFrom(entityRefs, idx, lib, events) ==
    IF idx >= Len(entityRefs) THEN Done(lib, events)
    ELSE LET Continue(step) ==
                 IF step.raised # "none"
                 THEN [lib |-> step.lib, events |-> events \o step.events,
                       raised |-> step.raised]
                 ELSE entityExistsFrom(entityRefs, idx + 1, step.lib, events \o step.events)
             Checked(result) == Done(result.lib, <<Success(idx, result.value)>>)
             Parsed(parsed) ==
                 IF parsed.exc # "none" THEN __handle_exception(parsed.exc, idx, lib)
                 ELSE Checked(exists(parsed.entity_info, lib))
         IN  Continue(Parsed(__parse_entity_ref(entityRefs[idx + 1], kRead)))

entityExists(entityRefs, lib) == entityExistsFrom(entityRefs, 0, lib, <<>>)

\* The variant of entityTraits that answers write as it answers read.
RECURSIVE EntityTraitsWriteAsRead(_, _, _, _, _, _)
EntityTraitsWriteAsRead(entityRefs, entityTraitsAccess, idx, lib, environ, events) ==
    IF idx >= Len(entityRefs) THEN Done(lib, events)
    ELSE LET Continue(step) ==
                 IF step.raised # "none"
                 THEN [lib |-> step.lib, events |-> events \o step.events,
                       raised |-> step.raised]
                 ELSE EntityTraitsWriteAsRead(entityRefs, entityTraitsAccess, idx + 1,
                                              step.lib, environ, events \o step.events)
             ForRead(entity_data) ==
                 IF entity_data.exc # "none"
                 THEN __handle_exception(entity_data.exc, idx, entity_data.lib)
                 ELSE Done(entity_data.lib,
                           <<Success(idx, DOMAIN entity_data.entity.traits
                                              \cup {VersionTrait_kId})>>)
             Parsed(parsed) ==
                 IF parsed.exc # "none" THEN __handle_exception(parsed.exc, idx, lib)
                 ELSE ForRead(entity(parsed.entity_info, lib, environ))
         IN  Continue(Parsed(__parse_entity_ref(entityRefs[idx + 1], entityTraitsAccess)))

RECURSIVE entityTraitsFrom(_, _, _, _, _, _)
entityTraitsFrom(entityRefs, entityTraitsAccess, idx, lib, environ, events) ==
    IF idx >= Len(entityRefs) THEN Done(lib, events)
    ELSE LET Continue(step) ==
                 IF step.raised # "none"
                 THEN [lib |-> step.lib, events |-> events \o step.events,
                       raised |-> step.raised]
                 ELSE entityTraitsFrom(entityRefs, entityTraitsAccess, idx + 1, step.lib,
                                       environ, events \o step.events)
             ForRead(entity_data) ==
                 IF entity_data.exc # "none"
                 THEN __handle_exception(entity_data.exc, idx, entity_data.lib)
                 ELSE Done(entity_data.lib,
                           <<Success(idx, DOMAIN entity_data.entity.traits
                                              \cup {VersionTrait_kId})>>)
             ForWrite(entity_data) ==
                 IF entity_data.exc # "none"
                 THEN __handle_exception(entity_data.exc, idx, entity_data.lib)
                 ELSE Done(entity_data.lib, <<Success(idx, DOMAIN entity_data.entity.traits)>>)
             Found(entity_info, found) ==
                 IF found.value THEN ForWrite(entity(entity_info, found.lib, environ))
                 ELSE Done(found.lib, <<Success(idx, {})>>)
             Parsed(parsed) ==
                 IF parsed.exc # "none" THEN __handle_exception(parsed.exc, idx, lib)
                 ELSE IF entityTraitsAccess = kRead
                 THEN ForRead(entity(parsed.entity_info, lib, environ))
                 ELSE Found(parsed.entity_info, exists(parsed.entity_info, lib))
         IN  Continue(Parsed(__parse_entity_ref(entityRefs[idx + 1], entityTraitsAccess)))

entityTraits(entityRefs, entityTraitsAccess, lib, environ) ==
    entityTraitsFrom(entityRefs, entityTraitsAccess, 0, lib, environ, <<>>)

\* The TraitsData that resolve builds for one entity.
ResolveKeepsEmptyTraits(entity_data, entity_info, traitSet) ==
    [trait \in traitSet \cap DOMAIN entity_data.traits |-> entity_data.traits[trait]]

ResolvedTraitsData(entity_data, entity_info, traitSet) ==
    LET result == [trait \in {t \in traitSet \cap DOMAIN entity_data.traits :
                                 entity_data.traits[t] # EmptyDict} |->
                      entity_data.traits[trait]]
        version_trait == Get(result, VersionTrait_kId, EmptyDict)
        stableTag == StrVal(PyStr(entity_data.version))
        specifiedTag == StrVal(IF entity_info.version # None
                               THEN IntToStr(entity_info.version)
                               ELSE VERSION_TAG_LATEST)
    IN  IF VersionTrait_kId \in traitSet
        THEN Put(result, VersionTrait_kId,
                 Put(Put(version_trait, "stableTag", stableTag),
                     "specifiedTag", specifiedTag))
        ELSE result

RECURSIVE resolveFrom(_, _, _, _, _, _, _)
resolveFrom(entityReferences, traitSet, access, idx, lib, environ, events) ==
    IF idx >= Len(entityReferences) THEN Done(lib, events)
    ELSE LET Continue(step) ==
                 IF step.raised # "none"
                 THEN [lib |-> step.lib, events |-> events \o step.events,
                       raised |-> step.raised]
                 ELSE resolveFrom(entityReferences, traitSet, access, idx + 1, step.lib,
                                  environ, events \o step.events)
             Resolved(entity_info, entity_data) ==
                 IF entity_data.exc # "none"
                 THEN __handle_exception(entity_data.exc, idx, entity_data.lib)
                 ELSE Done(entity_data.lib,
                           <<Success(idx, ResolvedTraitsData(entity_data.entity, entity_info,
                                                             traitSet))>>)
             Parsed(parsed) ==
                 IF parsed.exc # "none" THEN __handle_exception(parsed.exc, idx, lib)
                 ELSE Resolved(parsed.entity_info, entity(parsed.entity_info, lib, environ))
         IN  Continue(Parsed(__parse_entity_ref(entityReferences[idx + 1], access)))

resolve(entityReferences, traitSet, access, lib, environ) ==
    resolveFrom(entityReferences, traitSet, access, 0, lib, environ, <<>>)

\* managementPolicy returns a list, or raises what bal.management_policy
\* raises: [exc, result].
managementPolicy(traitSets, access, lib) ==
    LET policies == [k \in 1..Len(traitSets) |->
                        management_policy(traitSets[k], kAccessNames[access + 1], lib)]
    IN  IF \E k \in 1..Len(traitSets) : policies[k].exc # "none"
        THEN [exc |-> "LookupError", result |-> <<>>]
        ELSE [exc |-> "none", result |-> [k \in 1..Len(traitSets) |-> policies[k].policy]]

\* The variant of __validate_publish_policy that reports a missing policy
\* through the error callback.
PolicyErrorToCallback(traits_data, access, idx, lib) ==
    LET policy == management_policy(DOMAIN traits_data, kAccessNames[access + 1], lib)
    IN  IF policy.exc # "none" \/ policy.policy = EmptyDict
        THEN [exc |-> "none", ok |-> FALSE,
              events |-> <<Error(idx, "kInvalidTraitSet")>>]
        ELSE [exc |-> "none", ok |-> TRUE, events |-> <<>>]

\* Returns [exc, ok, events]: the policy lookup may raise; a trait set with an
\* empty policy gets an error.
__validate_publish_policy(traits_data, access, idx, lib) ==
    LET policy == management_policy(DOMAIN traits_data, kAccessNames[access + 1], lib)
    IN  IF policy.exc # "none" THEN [exc |-> policy.exc, ok |-> FALSE, events |-> <<>>]
        ELSE IF policy.policy = EmptyDict
        THEN [exc |-> "none", ok |-> FALSE,
              events |-> <<Error(idx, "kInvalidTraitSet")>>]
        ELSE [exc |-> "none", ok |-> TRUE, events |-> <<>>]

\* Returns [lib, exc, ok, events].
PublishWithAnyTraits(entity_info, trait_ids, idx, lib, environ) ==
    LET Checked(entity_data) ==
            IF entity_data.exc # "none"
            THEN [lib |-> entity_data.lib, exc |-> entity_data.exc, ok |-> FALSE,
                  events |-> <<>>]
            ELSE [lib |-> entity_data.lib, exc |-> "none", ok |-> TRUE, events |-> <<>>]
        Found(found) ==
            IF ~found.value
            THEN [lib |-> found.lib, exc |-> "none", ok |-> TRUE, events |-> <<>>]
            ELSE Checked(entity(entity_info, found.lib, environ))
    IN  Found(exists(entity_info, lib))

__validate_publish_entity_traits(entity_info, trait_ids, idx, lib, environ) ==
    LET Checked(entity_data) ==
            IF entity_data.exc # "none"
            THEN [lib |-> entity_data.lib, exc |-> entity_data.exc, ok |-> FALSE,
                  events |-> <<>>]
            ELSE IF ~(DOMAIN entity_data.entity.traits \subseteq trait_ids)
            THEN [lib |-> entity_data.lib, exc |-> "none", ok |-> FALSE,
                  events |-> <<Error(idx, "kInvalidTraitSet")>>]
            ELSE [lib |-> entity_data.lib, exc |-> "none", ok |-> TRUE, events |-> <<>>]
        Found(found) ==
            IF ~found.value
            THEN [lib |-> found.lib, exc |-> "none", ok |-> TRUE, events |-> <<>>]
            ELSE Checked(entity(entity_info, found.lib, environ))
    IN  Found(exists(entity_info, lib))

RECURSIVE preflightFrom(_, _, _, _, _, _, _)
preflightFrom(targetEntityRefs, traitsDatas, access, idx, lib, environ, events) ==
    IF idx >= Len(targetEntityRefs) THEN Done(lib, events)
    ELSE LET Continue(step) ==
                 IF step.raised # "none"
                 THEN [lib |-> step.lib, events |-> events \o step.events,
                       raised |-> step.raised]
                 ELSE preflightFrom(targetEntityRefs, traitsDatas, access, idx + 1, step.lib,
                                    environ, events \o step.events)
             Valid(entity_info, valid) ==
                 IF valid.exc # "none" THEN __handle_exception(valid.exc, idx, valid.lib)
                 ELSE IF ~valid.ok THEN Done(valid.lib, valid.events)
                 ELSE Done(valid.lib,
                           <<Success(idx, __build_entity_ref(
                                 [entity_info EXCEPT !.version = None]))>>)
             Parsed(parsed) ==
                 IF parsed.exc # "none" THEN __handle_exception(parsed.exc, idx, lib)
                 ELSE Valid(parsed.entity_info,
                            __validate_publish_entity_traits(
                                parsed.entity_info, DOMAIN traitsDatas[idx + 1], idx, lib,
                                environ))
             Policy(policy) ==
                 IF policy.exc # "none"
                 THEN [lib |-> lib, events |-> <<>>, raised |-> policy.exc]
                 ELSE IF ~policy.ok THEN Done(lib, policy.events)
                 ELSE Parsed(__parse_entity_ref(targetEntityRefs[idx + 1], access))
         IN  Continue(Policy(__validate_publish_policy(traitsDatas[idx + 1], access, idx,
                                                       lib)))

preflight(targetEntityRefs, traitsDatas, access, lib, environ) ==
    LET allowed == __validate_access({kWrite}, access, targetEntityRefs)
    IN  IF ~allowed.ok THEN Done(lib, allowed.events)
        ELSE preflightFrom(targetEntityRefs, traitsDatas, access, 0, lib, environ, <<>>)

RECURSIVE registerFrom(_, _, _, _, _, _, _)
registerFrom(targetEntityRefs, entityTraitsDatas, access, idx, lib, environ, events) ==
    IF idx >= Len(targetEntityRefs) THEN Done(lib, events)
    ELSE LET Continue(step) ==
                 IF step.raised # "none"
                 THEN [lib |-> step.lib, events |-> events \o step.events,
                       raised |-> step.raised]
                 ELSE registerFrom(targetEntityRefs, entityTraitsDatas, access, idx + 1,
                                   step.lib, environ, events \o step.events)
             Updated(updated) ==
                 Done(updated.lib, <<Success(idx, __build_entity_ref(updated.entity_info))>>)
             Valid(entity_info, valid) ==
                 IF valid.exc # "none" THEN __handle_exception(valid.exc, idx, valid.lib)
                 ELSE IF ~valid.ok THEN Done(valid.lib, valid.events)
                 ELSE Updated(create_or_update_entity(entity_info, entityTraitsDatas[idx + 1],
                                                      valid.lib))
             Parsed(parsed) ==
                 IF parsed.exc # "none" THEN __handle_exception(parsed.exc, idx, lib)
                 ELSE Valid(parsed.entity_info,
                            __validate_publish_entity_traits(
                                parsed.entity_info, DOMAIN entityTraitsDatas[idx + 1], idx,
                                lib, environ))
             Policy(policy) ==
                 IF policy.exc # "none"
                 THEN [lib |-> lib, events |-> <<>>, raised |-> policy.exc]
                 ELSE IF ~policy.ok THEN Done(lib, policy.events)
                 ELSE Parsed(__parse_entity_ref(targetEntityRefs[idx + 1], access))
         IN  Continue(Policy(__validate_publish_policy(entityTraitsDatas[idx + 1], access,
                                                       idx, lib)))

register(targetEntityRefs, entityTraitsDatas, access, lib, environ) ==
    LET allowed == __validate_access({kWrite}, access, targetEntityRefs)
    IN  IF ~allowed.ok THEN Done(lib, allowed.events)
        ELSE registerFrom(targetEntityRefs, entityTraitsDatas, access, 0, lib, environ, <<>>)

\* One pass of the loop of getWithRelationship and of getWithRelationships.
RelationshipElement(entity_ref, relationship, resultTraitSet, pageSize, access, idx, lib, environ) ==
    LET Found(found) ==
            IF found.exc # "none" THEN __handle_exception(found.exc, idx, found.lib)
            ELSE Done(found.lib,
                      <<Success(idx, BALEntityReferencePagerInterface(
                            pageSize,
                            [k \in 1..Len(found.relations) |->
                                __build_entity_ref(found.relations[k])]))>>)
        Parsed(parsed) ==
            IF parsed.exc # "none" THEN __handle_exception(parsed.exc, idx, lib)
            ELSE Found(__get_relations(parsed.entity_info, relationship, resultTraitSet, lib,
                                       environ))
    IN  Parsed(__parse_entity_ref(entity_ref, access))

RECURSIVE getWithRelationshipFrom(_, _, _, _, _, _, _, _, _)
getWithRelationshipFrom(entityReferences, relationshipTraitsData, resultTraitSet, pageSize, access, idx, lib, environ, events) ==
    IF idx >= Len(entityReferences) THEN Done(lib, events)
    ELSE LET Continue(step) ==
                 IF step.raised # "none"
                 THEN [lib |-> step.lib, events |-> events \o step.events,
                       raised |-> step.raised]
                 ELSE getWithRelationshipFrom(entityReferences, relationshipTraitsData,
                                              resultTraitSet, pageSize, access, idx + 1,
                                              step.lib, environ, events \o step.events)
         IN  Continue(RelationshipElement(entityReferences[idx + 1], relationshipTraitsData,
                                          resultTraitSet, pageSize, access, idx, lib, environ))

getWithRelationship(entityReferences, relationshipTraitsData, resultTraitSet, pageSize, access, lib, environ) ==
    LET allowed == __validate_access({kRead}, access, entityReferences)
    IN  IF ~allowed.ok THEN Done(lib, allowed.events)
        ELSE getWithRelationshipFrom(entityReferences, relationshipTraitsData,
                                     resultTraitSet, pageSize, access, 0, lib, environ, <<>>)

RECURSIVE getWithRelationshipsFrom(_, _, _, _, _, _, _, _, _)
getWithRelationshipsFrom(entityReference, relationshipTraitsDatas, resultTraitSet, pageSize, access, idx, lib, environ, events) ==
    IF idx >= Len(relationshipTraitsDatas) THEN Done(lib, events)
    ELSE LET Continue(step) ==
                 IF step.raised # "none"
                 THEN [lib |-> step.lib, events |-> events \o step.events,
                       raised |-> step.raised]
                 ELSE getWithRelationshipsFrom(entityReference, relationshipTraitsDatas,
                                               resultTraitSet, pageSize, access, idx + 1,
                                               step.lib, environ, events \o step.events)
         IN  Continue(RelationshipElement(entityReference, relationshipTraitsDatas[idx + 1],
                                          resultTraitSet, pageSize, access, idx, lib, environ))

getWithRelationships(entityReference, relationshipTraitsDatas, resultTraitSet, pageSize, access, lib, environ) ==
    LET allowed == __validate_access({kRead}, access, relationshipTraitsDatas)
    IN  IF ~allowed.ok THEN Done(lib, allowed.events)
        ELSE getWithRelationshipsFrom(entityReference, relationshipTraitsDatas,
                                      resultTraitSet, pageSize, access, 0, lib, environ, <<>>)

\* ------------------------------------------- the interface's operations

\* The most elements a batch holds.
MaxBatch == 2

\* The most fields the query of a parsed reference holds.
MaxFields == 2

Batches(elems) == UNION { [1..k -> elems] : k \in 1..MaxBatch }

Ref(name, query) == __entity_refrence_prefix \o name \o query

qV1 == <<"?", "v", "=", "1">>
qV2 == <<"?", "v", "=", "2">>

\* References to the entities of the library, to a name it does not hold,
\* and one without a name.
EntityRefs ==
    { Ref(nA, <<>>), Ref(nA, qV1), Ref(nZ, <<>>), Ref(nR, <<>>), Ref(nM, qV2),
      Ref(nNew, <<>>), Ref(<<>>, <<>>) }

T1 == [t1 |-> [p |-> IntVal(2)]]
T2 == [t1 |-> [p |-> StrVal(<<"$", "v">>)], t2 |-> EmptyDict]
T3 == [t3 |-> EmptyDict]

\* The (reference, traits data) pairs the callers publish.
PublishElements ==
    { <<Ref(nA, <<>>), T1>>, <<Ref(nA, <<>>), T2>>, <<Ref(nA, qV1), T1>>,
      <<Ref(nR, <<>>), T1>>, <<Ref(nM, <<>>), T2>>, <<Ref(nNew, <<>>), T1>>,
      <<Ref(nNew, <<>>), T3>>, <<Ref(<<>>, <<>>), T1>>,
      <<Ref(nA, <<>>), [t4 |-> EmptyDict]>> }

RelationshipTraits == (RelationshipTrait_kId :> EmptyDict)

SpecifiedTag(tag) == (VersionTrait_kId :> [specifiedTag |-> StrVal(tag)])

\* The relationship traits data the callers query with: the versions of an
\* entity, with and without a specified tag, the stable reference, and
\* relations of the library.
pEntityVersions == RelationshipTraits @@ (VersionTrait_kId :> EmptyDict)
pEntityVersionsX == RelationshipTraits @@ SpecifiedTag(<<"x">>)
pStableVersionsLatest ==
    RelationshipTraits @@ SpecifiedTag(VERSION_TAG_LATEST) @@ (StableTrait_kId :> EmptyDict)
pStableVersions1 ==
    RelationshipTraits @@ SpecifiedTag(<<"1">>) @@ (StableTrait_kId :> EmptyDict)
pStableReference == RelationshipTraits @@ (StableTrait_kId :> EmptyDict)
pKind1 == [rel |-> [kind |-> IntVal(1)]]
pAnyKind == [rel |-> EmptyDict]

RelationshipPatterns ==
    { pEntityVersions, pEntityVersionsX, pStableVersionsLatest, pStableVersions1,
      pStableReference, pKind1, pAnyKind,
      pEntityVersions @@ (StableTrait_kId :> EmptyDict),
      RelationshipTraits @@ SpecifiedTag(<<"2">>),
      RelationshipTraits @@ SpecifiedTag(VERSION_TAG_LATEST),
      [rel |-> [w |-> IntVal(1)], t9 |-> EmptyDict] }

\* [relationship, resultTraitSet, pageSize]
RelationshipQueries ==
    { [relationship |-> p, resultTraitSet |-> {}, pageSize |-> 1] :
          p \in RelationshipPatterns }
    \cup { [relationship |-> pKind1, resultTraitSet |-> {"t2"}, pageSize |-> 1],
           [relationship |-> pEntityVersions, resultTraitSet |-> {}, pageSize |-> 2] }

RelationshipRefs == { Ref(nA, <<>>), Ref(nA, qV1), Ref(nZ, <<>>), Ref(nNew, <<>>) }

EntityExists(entityRefs) ==
    /\ UNCHANGED settings
    /\ call.op = "idle"
    /\ LET r == entityExists(entityRefs, library)
       IN  /\ library' = r.lib
           /\ call' = [op |-> "entityExists", refs |-> entityRefs, n |-> Len(entityRefs),
                       events |-> r.events, raised |-> r.raised]

EntityTraits(entityRefs, entityTraitsAccess) ==
    /\ UNCHANGED settings
    /\ call.op = "idle"
    /\ LET r == entityTraits(entityRefs, entityTraitsAccess, library, Environ)
       IN  /\ library' = r.lib
           /\ call' = [op |-> "entityTraits", refs |-> entityRefs, n |-> Len(entityRefs),
                       access |-> entityTraitsAccess,
                       events |-> r.events, raised |-> r.raised]

Resolve(entityReferences, traitSet, access) ==
    /\ UNCHANGED settings
    /\ call.op = "idle"
    /\ LET r == resolve(entityReferences, traitSet, access, library, Environ)
       IN  /\ library' = r.lib
           /\ call' = [op |-> "resolve", refs |-> entityReferences,
                       n |-> Len(entityReferences), traitSet |-> traitSet,
                       access |-> access, events |-> r.events, raised |-> r.raised]

PolicyQuery(traitSets, access) ==
    /\ UNCHANGED settings
    /\ call.op = "idle"
    /\ LET r == managementPolicy(traitSets, access, library)
       IN  /\ library' = library
           /\ call' = [op |-> "managementPolicy", traitSets |-> traitSets,
                       access |-> access, result |-> r.result, raised |-> r.exc]

Preflight(elems, access) ==
    /\ UNCHANGED settings
    /\ call.op = "idle"
    /\ LET targetEntityRefs == [k \in 1..Len(elems) |-> elems[k][1]]
           traitsDatas == [k \in 1..Len(elems) |-> elems[k][2]]
           r == preflight(targetEntityRefs, traitsDatas, access, library, Environ)
       IN  /\ library' = r.lib
           /\ call' = [op |-> "preflight", refs |-> targetEntityRefs, n |-> Len(elems),
                       traitsDatas |-> traitsDatas, access |-> access,
                       events |-> r.events, raised |-> r.raised]

Register(elems, access) ==
    /\ UNCHANGED settings
    /\ call.op = "idle"
    /\ TotalVersions(library) + Len(elems) <= MaxVersions
    /\ LET targetEntityRefs == [k \in 1..Len(elems) |-> elems[k][1]]
           entityTraitsDatas == [k \in 1..Len(elems) |-> elems[k][2]]
           r == register(targetEntityRefs, entityTraitsDatas, access, library, Environ)
       IN  /\ library' = r.lib
           /\ call' = [op |-> "register", refs |-> targetEntityRefs, n |-> Len(elems),
                       traitsDatas |-> entityTraitsDatas, access |-> access,
                       events |-> r.events, raised |-> r.raised]

GetWithRelationship(entityReferences, query, access) ==
    /\ UNCHANGED settings
    /\ call.op = "idle"
    /\ LET r == getWithRelationship(entityReferences, query.relationship,
                                    query.resultTraitSet, query.pageSize, access,
                                    library, Environ)
       IN  /\ library' = r.lib
           /\ call' = [op |-> "getWithRelationship", refs |-> entityReferences,
                       n |-> Len(entityReferences), query |-> query, access |-> access,
                       events |-> r.events, raised |-> r.raised]

GetWithRelationships(entityReference, relationshipTraitsDatas, access) ==
    /\ UNCHANGED settings
    /\ call.op = "idle"
    /\ LET r == getWithRelationships(entityReference, relationshipTraitsDatas, {}, 1,
                                     access, library, Environ)
       IN  /\ library' = r.lib
           /\ call' = [op |-> "getWithRelationships", refs |-> <<entityReference>>,
                       n |-> Len(relationshipTraitsDatas),
                       relationships |-> relationshipTraitsDatas, access |-> access,
                       events |-> r.events, raised |-> r.raised]

NextInterface ==
    \/ \E entityRefs \in Batches(EntityRefs) : EntityExists(entityRefs)
    \/ \E entityRefs \in Batches(EntityRefs), access \in {kRead, kWrite} :
           EntityTraits(entityRefs, access)
    \/ \E entityRefs \in Batches(EntityRefs \cup {Ref(nM, <<>>)}),
          access \in {kRead, kManagerDriven},
          traitSet \in {{"t1", "t2"}, {"t1", VersionTrait_kId}} :
           Resolve(entityRefs, traitSet, access)
    \/ \E traitSets \in Batches({{"t1"}, {"t3"}, {"t4"}}),
          access \in {kRead, kWrite, kManagerDriven} :
           PolicyQuery(traitSets, access)
    \/ \E elems \in Batches(PublishElements), access \in {kWrite, kCreateRelated} :
           Preflight(elems, access)
    \/ \E elems \in Batches(PublishElements), access \in {kWrite, kCreateRelated} :
           Register(elems, access)
    \/ \E entityRefs \in Batches(RelationshipRefs), query \in RelationshipQueries,
          access \in {kRead, kWrite} :
           GetWithRelationship(entityRefs, query, access)
    \/ \E entityRef \in RelationshipRefs,
          relationships \in Batches({pEntityVersions, pStableVersionsLatest,
                                     pStableReference, pKind1}),
          access \in {kRead, kWrite} :
           GetWithRelationships(entityRef, relationships, access)
    \/ Return

SpecInterface == Init /\ [][NextInterface]_vars

\* ---------------------------------------------------- parsing references

QueryFields ==
    { <<"v", "=", "1">>, <<"v", "=", "2">>, <<"v", "=", "0">>,
      <<"v", "=", "l", "a", "t", "e", "s", "t">>, <<"v", "=", "x">>, <<"v", "=">>,
      <<"w", "=", "1">>, <<"v", "=", "+", "1">>, <<"v", "=", "%", "3", "1">>,
      <<"v", "=", "-", "1">>, <<"v">> }

\* The queries of up to MaxFields fields, the empty one, and no query.
ParseQueries ==
    { <<>> } \cup
    { <<"?">> \o Join(fields, "&") :
          fields \in UNION { [1..k -> QueryFields] : k \in 0..MaxFields } }

ParseRefs == { Ref(name, query) : name \in {<<>>, nA, nNew}, query \in ParseQueries }

\* BasicAssetLibraryInterface.__parse_entity_ref(entity_ref, access)
ParseEntityRef(entity_ref, access) ==
    /\ UNCHANGED settings
    /\ call.op = "idle"
    /\ LET r == __parse_entity_ref(entity_ref, access)
       IN  /\ library' = library
           /\ call' = [op |-> "__parse_entity_ref", entity_ref |-> entity_ref,
                       access |-> access, exc |-> r.exc, entity_info |-> r.entity_info]

\* The longest entity name of a locator handed to __build_entity_ref.
MaxName == 2

\* Entity names as a library document can hold them (its keys are any strings).
NameChars == {"a", "/", "=", "?", "#"}

BuildNames == UNION { [1..k -> NameChars] : k \in 1..MaxName }

\* BasicAssetLibraryInterface.__build_entity_ref(entity_info)
BuildEntityRef(entity_info) ==
    /\ UNCHANGED settings
    /\ call.op = "idle"
    /\ library' = library
    /\ call' = [op |-> "__build_entity_ref", entity_info |-> entity_info,
                ref |-> __build_entity_ref(entity_info)]

\* The reference a handler returned comes back in a later call, with the
\* access mode of the locator it was built from.
ParseBuilt ==
    /\ UNCHANGED settings
    /\ call.op = "__build_entity_ref"
    /\ LET access == CHOOSE a \in 0..4 : kAccessNames[a + 1] = call.entity_info.access
           r == __parse_entity_ref(call.ref, access)
       IN  /\ library' = library
           /\ call' = [op |-> "parse_built", entity_info |-> call.entity_info,
                       ref |-> call.ref, exc |-> r.exc, parsed |-> r.entity_info]

\* The most pieces the path of a file: value is made of.
MaxSegments == 4

\* bal.normalize_file_url(maybe_file_url)
NormalizeFileUrl(maybe_file_url) ==
    /\ call.op = "idle"
    /\ UNCHANGED <<library, settings>>
    /\ call' = [op |-> "normalize_file_url", maybe_file_url |-> maybe_file_url,
                result |-> normalize_file_url(maybe_file_url)]

NextParse ==
    \/ \E entity_ref \in ParseRefs, access \in {kRead, kWrite} :
           ParseEntityRef(entity_ref, access)
    \/ \E entity_ref \in ParseRefs : EntityExists(<<entity_ref>>)
    \/ \E name \in BuildNames, version \in {None} \cup 1..MaxTag \cup {10 + MaxTag},
          access \in 0..4 :
           BuildEntityRef(EntityInfo(name, version, kAccessNames[access + 1]))
    \/ ParseBuilt
    \/ \E prefix \in {<<"f", "i", "l", "e", ":">>, <<"f", "i", "l", "e", ":", "/", "/">>},
          pieces \in {<<>>} \cup UNION { [1..k -> {<<"/", "a">>, <<"/", ".">>,
                                                  <<"/", ".", ".">>, <<"/">>, <<"a">>}] :
                                          k \in 1..MaxSegments } :
           NormalizeFileUrl(prefix \o Flatten(pieces))
    \/ Return

SpecParse == Init /\ [][NextParse]_vars

\* ------------------------------------------- initializing the manager

\* bal.load_library(path)
LoadLibrary(path) ==
    /\ call.op = "idle"
    /\ UNCHANGED <<library, settings>>
    /\ LET Loaded(loaded) ==
               call' = [op |-> "load_library", path |-> path, exc |-> loaded.exc,
                        library |-> loaded.library]
       IN  Loaded(load_library(path))

\* initialize(managerSettings, hostSession)
Initialize(managerSettings) ==
    /\ call.op = "idle"
    /\ LET Initialized(r) ==
               /\ library' = r.library
               /\ settings' = r.settings
               /\ call' = [op |-> "initialize", managerSettings |-> managerSettings,
                           exc |-> r.exc]
       IN  Initialized(initialize(managerSettings, settings, library, Environ))

\* entityExists([entity_ref], ...) for a well-formed reference, which the
\* host makes with the manager's prefix: bal.exists reads
\* library["entities"], which the library left by a failed load does not
\* have.
QueryExists(entity_ref) ==
    /\ call.op = "idle"
    /\ settings["entity_reference_url_scheme"].s \o <<":", "/", "/", "/">>
           = __entity_refrence_prefix
    /\ UNCHANGED settings
    /\ IF "entities" \in DOMAIN library
       THEN LET Answered(r) ==
                    /\ library' = r.lib
                    /\ call' = [op |-> "entityExists", refs |-> <<entity_ref>>, n |-> 1,
                                events |-> r.events, raised |-> r.raised]
            IN  Answered(entityExists(<<entity_ref>>, library))
       ELSE /\ library' = library
            /\ call' = [op |-> "entityExists", refs |-> <<entity_ref>>, n |-> 1,
                        events |-> <<>>, raised |-> "KeyError"]

NextManager ==
    \/ \E path \in DOMAIN Files
                      \cup {<<>>, <<"y">>, <<"n">>, <<"/", "l", "/", ".", "/", "d">>} :
           LoadLibrary(path)
    \/ \E key \in DOMAIN __make_default_settings \cup {"unknown"},
          value \in { StrVal(<<>>), StrVal(<<"/", "l", "/", "x">>), StrVal(<<"/", "l", "/", "d">>),
                      StrVal(<<"y">>), StrVal(<<"/", "l", "/", "b">>),
                      StrVal(<<"/", "l", "/", "n">>), StrVal(<<"b", "a", "l">>),
                      IntVal(0), IntVal(0 - 1) } :
           Initialize(key :> value)
    \/ \E path \in {<<"/", "l", "/", "d">>, <<"/", "l", "/", "n">>} :
           Initialize([library_path |-> StrVal(path),
                       simulated_query_latency_ms |-> IntVal(0)])
    \/ Initialize(EmptyDict)
    \/ \E entity_ref \in {Ref(nA, <<>>), Ref(nZ, <<>>), Ref(nNew, <<>>)} :
           QueryExists(entity_ref)
    \/ Return

SpecManager == Init /\ [][NextManager]_vars

\* ------------------------------------------------------------------ claims

\* The number of versions the library holds for a name (0 for an unknown one).
NumVersions(lib, name) ==
    IF name \in DOMAIN lib.entities THEN Len(lib.entities[name].versions) ELSE 0

\* C1: every create_or_update_entity returns the number of versions the
\* entity had immediately before the call plus 1 (1 for an unknown name), and
\* the entity then has exactly that many versions: the tags of one entity are
\* consecutive, none reused and none skipped.
C1_VersionMonotonicity ==
    [][call'.op = "create_or_update_entity" =>
          /\ call'.result.version = NumVersions(library, call'.entity_info.name) + 1
          /\ NumVersions(library', call'.entity_info.name) = call'.result.version]_vars

\* An entity that had two versions is given its third.
C1_Witness ==
    /\ call.op = "create_or_update_entity"
    /\ call.entity_info.name = nA
    /\ call.result.version = 3

\* The selection the specification describes, for a name the library holds:
\* [found, rec, tag].
SelectionRule(entity_info, lib) ==
    LET entity_dict == lib.entities[entity_info.name]
        n == Len(entity_dict.versions)
        v == entity_info.version
        not_found == [found |-> FALSE, rec |-> NullRecord, tag |-> None]
    IN  IF entity_info.access \in DOMAIN entity_dict.overrideByAccess
        THEN [found |-> ~IsNone(entity_dict.overrideByAccess[entity_info.access]),
              rec |-> entity_dict.overrideByAccess[entity_info.access],
              tag |-> v]
        ELSE IF n = 0 THEN not_found
        ELSE IF v # None
        THEN IF v >= 1 /\ v <= n
             THEN [found |-> TRUE, rec |-> entity_dict.versions[v], tag |-> v]
             ELSE not_found
        ELSE [found |-> TRUE, rec |-> entity_dict.versions[n], tag |-> n]

\* C2: for a locator whose name is present the selected record and tag are
\* (1) the access override paired with the locator's own version, else (2)
\* not found for an empty versions list, else (3) the v-th record with tag v,
\* or not found when v > n, else (4) the last record with tag n; so version
\* None resolves to the traits that the explicit version n resolves to.
C2_SelectionOrder ==
    \A entity_info \in Locators :
        entity_info.name \in DOMAIN library.entities =>
            LET sel == _entity_version_dict_and_tag(entity_info, library)
                rule == SelectionRule(entity_info, library)
                n == NumVersions(library, entity_info.name)
                latest == entity(EntityInfo(entity_info.name, None, entity_info.access),
                                 library, Environ)
                nth == entity(EntityInfo(entity_info.name, n, entity_info.access),
                              library, Environ)
            IN  /\ sel.rec = rule.rec
                /\ sel.tag = rule.tag
                /\ IsNone(sel.rec) = ~rule.found
                /\ (n >= 1 /\ n <= MaxTag) =>
                       /\ latest.exc = nth.exc
                       /\ latest.entity.traits = nth.entity.traits

\* An override is resolved for a version the entity does not have, paired
\* with the version the locator names.
C2_Witness ==
    /\ call.op = "entity"
    /\ call.entity_info = EntityInfo(nM, 2, "managerDriven")
    /\ NumVersions(library, nM) = 0
    /\ call.exc = "none"
    /\ call.entity.version = 2

\* The outcome of resolve: a record is blocked when it has no traits value.
ResolveOutcome(entity_info, lib) ==
    IF entity_info.name \notin DOMAIN lib.entities THEN "UnknownBALEntity"
    ELSE IF ~SelectionRule(entity_info, lib).found THEN "InvalidEntityVersion"
    ELSE IF SelectionRule(entity_info, lib).rec.kind = "blank" THEN "InaccessibleEntity"
    ELSE "none"

\* The outcome of resolve with "its traits value is empty or null" read as
\* written: a record whose traits value is an empty mapping counts as blocked.
ResolveOutcomeEmptyBlocked(entity_info, lib) ==
    IF entity_info.name \notin DOMAIN lib.entities THEN "UnknownBALEntity"
    ELSE IF ~SelectionRule(entity_info, lib).found THEN "InvalidEntityVersion"
    ELSE IF \/ SelectionRule(entity_info, lib).rec.kind = "blank"
            \/ SelectionRule(entity_info, lib).rec.traits = EmptyDict
    THEN "InaccessibleEntity"
    ELSE "none"

\* C3 as stated: resolve raises UnknownBALEntity iff the name is absent,
\* otherwise InvalidEntityVersion iff selection yields not found, otherwise
\* InaccessibleEntity iff the traits value of the selected record is empty or
\* null, otherwise it succeeds; and an error leaves the library unchanged.
C3_EmptyTraitsInaccessible ==
    /\ \A entity_info \in Locators :
           LET r == entity(entity_info, library, Environ)
           IN  /\ r.exc = ResolveOutcomeEmptyBlocked(entity_info, library)
               /\ r.exc # "none" => r.lib = library
    /\ call.op = "entity" => call.exc = ResolveOutcomeEmptyBlocked(call.entity_info, library)

\* C3, amended: resolve (bal.entity) raises UnknownBALEntity iff the name is
\* absent, otherwise InvalidEntityVersion iff selection yields not found (a
\* null override included), otherwise InaccessibleEntity iff the selected
\* record has no traits value (the key is missing or null; a record whose
\* traits value is an empty mapping resolves, to no traits), otherwise it
\* succeeds; and an error leaves the library unchanged.
C3_ResolveOutcomes ==
    /\ \A entity_info \in Locators :
           LET r == entity(entity_info, library, Environ)
           IN  /\ r.exc = ResolveOutcome(entity_info, library)
               /\ r.exc # "none" => r.lib = library
    /\ call.op = "entity" => call.exc = ResolveOutcome(call.entity_info, library)

\* Resolve has succeeded for a record whose traits value is an empty mapping,
\* while the same entity's blank write override is inaccessible.
C3_Witness ==
    /\ call.op = "entity"
    /\ call.entity_info = EntityInfo(nA, 1, "read")
    /\ library.entities[nA].versions[1] = TraitsRecord(EmptyDict)
    /\ call.exc = "none"
    /\ call.entity.traits = EmptyDict
    /\ entity(EntityInfo(nR, None, "write"), library, Environ).exc = "InaccessibleEntity"

\* C4 as stated: exists(locator) is true exactly when resolve of the same
\* locator succeeds.
C4_ExistsIffResolves ==
    call.op = "exists" =>
        (call.value <=> entity(call.entity_info, library, Environ).exc = "none")

\* C4, amended: exists(locator) is true iff the name is present and selection
\* yields a non-null record, whether or not that record is access-blocked:
\* it is true whenever resolve succeeds or raises InaccessibleEntity, and
\* false whenever resolve raises UnknownBALEntity or InvalidEntityVersion
\* (so false for an entity with no versions and no override).
C4_ExistsIffRecordSelected ==
    /\ \A entity_info \in Locators :
           LET r == exists(entity_info, library)
           IN  /\ r.value <=> (/\ entity_info.name \in DOMAIN library.entities
                               /\ SelectionRule(entity_info, library).found)
               /\ r.value <=> (entity(entity_info, library, Environ).exc
                                   \in {"none", "InaccessibleEntity"})
    /\ call.op = "exists" =>
           (call.value <=> (ResolveOutcome(call.entity_info, library)
                                \in {"none", "InaccessibleEntity"}))

\* exists has answered true for a record that resolve refuses as inaccessible.
C4_Witness ==
    /\ call.op = "exists"
    /\ call.entity_info.name = nR
    /\ call.entity_info.access = "write"
    /\ call.value
    /\ entity(call.entity_info, library, Environ).exc = "InaccessibleEntity"

\* The library the specification describes after create_or_update.
AfterAppend(lib, name, traits_dict) ==
    LET before == IF name \in DOMAIN lib.entities THEN lib.entities[name] ELSE NewEntityDict
    IN  [lib EXCEPT !.entities =
            Put(lib.entities, name,
                [before EXCEPT !.versions = Append(@, TraitsRecord(traits_dict))])]

\* C6: create_or_update_entity changes the library only by appending one
\* record holding exactly the supplied traits to the named entity's versions
\* (the entity being created first when unknown); the earlier records, the
\* relations and overrides, the other entities, the policies and the
\* variables stay as they were, also when the traits equal the latest ones.
C6_CreateAppendsOneRecord ==
    [][call'.op = "create_or_update_entity" =>
          library' = AfterAppend(library, call'.entity_info.name, call'.traits_dict)]_vars

\* The same traits were published twice to one name and make two versions.
C6_Witness ==
    /\ call.op = "create_or_update_entity"
    /\ call.entity_info.name = nNew
    /\ call.result.version = 2
    /\ library.entities[nNew].versions[1] = library.entities[nNew].versions[2]

ReadOps ==
    { "entityExists", "entityTraits", "resolve", "managementPolicy", "preflight",
      "getWithRelationship", "getWithRelationships" }

\* C5: no read-type operation changes the library: entityExists, resolve,
\* entityTraits, managementPolicy, the relationship queries and preflight
\* leave it exactly as it was for every input (unknown names, versions out of
\* range and blocked records included, and no entity record is created for a
\* name that was absent); only register changes it.
C5_ReadOperationsKeepLibrary ==
    [][/\ call'.op \in ReadOps => library' = library
       /\ library' # library => call'.op = "register"]_vars

\* entityExists has answered false for a name the library does not hold, and
\* the library still does not hold it.
C5_Witness ==
    /\ call.op = "entityExists"
    /\ call.refs[1] = Ref(nNew, <<>>)
    /\ call.events[1] = Success(0, FALSE)
    /\ nNew \notin DOMAIN library.entities

BatchOps ==
    { "entityExists", "entityTraits", "resolve", "preflight", "register",
      "getWithRelationship", "getWithRelationships" }

\* C7: in every batch operation every element index receives exactly one
\* callback, success or error, whatever happens to the other elements (an
\* unresolvable management policy apart).
C7_EveryElementOneCallback ==
    (call.op \in BatchOps /\ call.raised # "LookupError") =>
        /\ Len(call.events) = call.n
        /\ \A k \in 1..call.n : call.events[k].idx = k - 1

\* What publishing one element to a library does, as the specification
\* describes it: "ok" or the code of the element's error.
PublishVerdict(entity_ref, traits_data, lib) ==
    LET policy == management_policy(DOMAIN traits_data, "write", lib)
        parsed == __parse_entity_ref(entity_ref, kWrite)
        outcome == ResolveOutcome(parsed.entity_info, lib)
        required == DOMAIN SelectionRule(parsed.entity_info, lib).rec.traits
    IN  IF policy.policy = EmptyDict THEN "kInvalidTraitSet"
        ELSE IF parsed.exc # "none" THEN "kMalformedEntityReference"
        ELSE IF outcome \in {"UnknownBALEntity", "InvalidEntityVersion"} THEN "ok"
        ELSE IF outcome = "InaccessibleEntity" THEN "kEntityAccessError"
        ELSE IF ~(required \subseteq DOMAIN traits_data) THEN "kInvalidTraitSet"
        ELSE "ok"

\* The callbacks and the library the specification describes for register,
\* from element idx on: [lib, events].
RECURSIVE ExpectedRegister(_, _, _, _)
ExpectedRegister(refs, traitsDatas, idx, lib) ==
    IF idx >= Len(refs) THEN [lib |-> lib, events |-> <<>>]
    ELSE LET verdict == PublishVerdict(refs[idx + 1], traitsDatas[idx + 1], lib)
             name == __parse_entity_ref(refs[idx + 1], kWrite).entity_info.name
             tag == NumVersions(lib, name) + 1
             rest == ExpectedRegister(
                         refs, traitsDatas, idx + 1,
                         IF verdict = "ok"
                         THEN AfterAppend(lib, name, traitsDatas[idx + 1])
                         ELSE lib)
         IN  [lib |-> rest.lib,
              events |-> << IF verdict = "ok"
                            THEN Success(idx, Ref(name, <<"?", "v", "=">> \o IntToStr(tag)))
                            ELSE Error(idx, verdict) >> \o rest.events]

ExpectedPreflight(refs, traitsDatas, lib) ==
    [k \in 1..Len(refs) |->
        IF PublishVerdict(refs[k], traitsDatas[k], lib) = "ok"
        THEN Success(k - 1, Ref(__parse_entity_ref(refs[k], kWrite).entity_info.name, <<>>))
        ELSE Error(k - 1, PublishVerdict(refs[k], traitsDatas[k], lib))]

\* C8: register appends a version for an element, and reports success for
\* it, only if the write policy of its trait set is non-empty and its target
\* either does not exist for write or resolves to an accessible record whose
\* trait ids are all supplied; any other element gets exactly one error
\* (kInvalidTraitSet for an unsupported trait set or a missing required
\* trait, kEntityAccessError for a write-blocked record, and
\* kMalformedEntityReference when the reference does not parse) and leaves
\* the library as it was; preflight reports the same errors and changes
\* nothing.
C8_RegisterValidation ==
    [][/\ (call'.op = "register" /\ call'.access = kWrite /\ call'.raised = "none") =>
              /\ call'.events = ExpectedRegister(call'.refs, call'.traitsDatas, 0,
                                                 library).events
              /\ library' = ExpectedRegister(call'.refs, call'.traitsDatas, 0, library).lib
       /\ (call'.op = "preflight" /\ call'.access = kWrite /\ call'.raised = "none") =>
              /\ call'.events = ExpectedPreflight(call'.refs, call'.traitsDatas, library)
              /\ library' = library]_vars

\* One batch published a version to an entity and was then refused a second
\* one that lacks a trait of the version just published.
C8_Witness ==
    /\ call.op = "register"
    /\ call.n = 2
    /\ call.refs = <<Ref(nA, <<>>), Ref(nA, <<>>)>>
    /\ call.traitsDatas = <<T2, T1>>
    /\ call.events[1].ok
    /\ call.events[2] = Error(1, "kInvalidTraitSet")
    /\ NumVersions(library, nA) = 3

\* A string property as resolve returns it.
Substituted(value, lib) ==
    IF ~value.isStr THEN value
    ELSE LET subbed == safe_substitute(value.s, 1, lib.variables, Environ)
         IN  IF StartsWith(subbed, <<"f", "i", "l", "e", ":">>)
             THEN StrVal(normalize_file_url(subbed))
             ELSE StrVal(subbed)

\* The traits data resolve returns for published traits data: its traits
\* that have a property, with the string properties substituted.
ExpectedResolved(traits_data, lib) ==
    [trait \in {t \in DOMAIN traits_data : traits_data[t] # EmptyDict} |->
        [prop \in DOMAIN traits_data[trait] |-> Substituted(traits_data[trait][prop], lib)]]

HasReadOverride(entity_ref, lib) ==
    "read" \in DOMAIN lib.entities[__parse_entity_ref(entity_ref, kRead).entity_info.name]
                          .overrideByAccess

\* C9 as stated: after a successful register of T, resolving the returned
\* reference for read with T's trait set yields exactly T, and entityExists
\* on it is true.
C9_RegisterThenResolveExactly ==
    (call.op = "register" /\ call.access = kWrite) =>
        \A k \in 1..Len(call.events) :
            call.events[k].ok =>
                LET T == call.traitsDatas[call.events[k].idx + 1]
                    returned == call.events[k].value
                IN  /\ resolve(<<returned>>, DOMAIN T, kRead, library, Environ).events
                           = <<Success(0, T)>>
                    /\ entityExists(<<returned>>, library).events = <<Success(0, TRUE)>>

\* C9, amended: after a successful register of T to an entity that has no
\* read access override, resolving the returned reference for read with T's
\* trait set yields the traits of T that have at least one property, each
\* string property with its variables substituted and its file: URL
\* normalised (the newly published data, not the previous version's), and
\* entityExists on the returned reference is true.
C9_RegisterThenResolve ==
    (call.op = "register" /\ call.access = kWrite) =>
        \A k \in 1..Len(call.events) :
            (call.events[k].ok /\ ~HasReadOverride(call.events[k].value, library)) =>
                LET T == call.traitsDatas[call.events[k].idx + 1]
                    returned == call.events[k].value
                IN  /\ resolve(<<returned>>, DOMAIN T, kRead, library, Environ).events
                           = <<Success(0, ExpectedResolved(T, library))>>
                    /\ entityExists(<<returned>>, library).events = <<Success(0, TRUE)>>

\* Traits data with a variable and a trait without properties was published:
\* resolve returns the variable's value and leaves the empty trait out.
C9_Witness ==
    /\ call.op = "register"
    /\ call.n = 1
    /\ call.refs[1] = Ref(nA, <<>>)
    /\ call.traitsDatas[1] = T2
    /\ call.events[1] = Success(0, Ref(nA, <<"?", "v", "=", "3">>))
    /\ resolve(<<call.events[1].value>>, {"t1", "t2"}, kRead, library, Environ).events
           = <<Success(0, [t1 |-> [p |-> StrVal(<<"L">>)]])>>

\* The values of the query's fields named v, in order, blank values
\* included (a field without "=" is no parameter).
RECURSIVE VFieldValues(_)
VFieldValues(fields) ==
    IF fields = <<>> THEN <<>>
    ELSE LET field == Head(fields)
             eq == FindFrom(field, {"="}, 1)
         IN  IF /\ eq <= Len(field)
                /\ unquote(PlusToSpace(SubSeq(field, 1, eq - 1))) = <<"v">>
             THEN <<unquote(PlusToSpace(SubSeq(field, eq + 1, Len(field))))>>
                      \o VFieldValues(Tail(fields))
             ELSE VFieldValues(Tail(fields))

LastV(entity_ref) ==
    LET query == urlparse(entity_ref).query
        values == VFieldValues(IF query = <<>> THEN <<>> ELSE Split(query, "&"))
    IN  IF values = <<>> THEN [present |-> FALSE, value |-> <<>>]
        ELSE [present |-> TRUE, value |-> values[Len(values)]]

\* The references the specification calls malformed.
SpecMalformed(entity_ref) ==
    \/ Len(urlparse(entity_ref).path) <= 1
    \/ /\ LastV(entity_ref).present
       /\ LastV(entity_ref).value # VERSION_TAG_LATEST
       /\ \/ ~PyInt(LastV(entity_ref).value).ok
          \/ PyInt(LastV(entity_ref).value).value < 1

\* C10: parsing raises the malformed error iff the path has length <= 1 or
\* the last v query parameter is neither "latest" nor an integer or is an
\* integer below 1; with v absent or "latest" the version is None, else it
\* is the last v; and a malformed reference is reported for its element and
\* leaves the library as it was.
C10_MalformedIffLastV ==
    /\ call.op = "__parse_entity_ref" =>
           /\ (call.exc = "MalformedEntityReference") <=> SpecMalformed(call.entity_ref)
           /\ call.exc = "none" =>
                  call.entity_info.version =
                      IF ~LastV(call.entity_ref).present
                         \/ LastV(call.entity_ref).value = VERSION_TAG_LATEST
                      THEN None
                      ELSE PyInt(LastV(call.entity_ref).value).value
    /\ call.op = "entityExists" =>
           /\ library = LibraryDocument
           /\ \A k \in 1..call.n :
                  SpecMalformed(call.refs[k]) <=>
                      (/\ k <= Len(call.events)
                       /\ call.events[k] = Error(k - 1, "kMalformedEntityReference"))

\* C11: for every locator with a non-empty name, a version that is None or
\* >= 1 and any access mode, parsing the reference that __build_entity_ref
\* makes of it, with the same access mode, raises nothing and gives back a
\* locator equal to the original in name, version and access.
C11_RoundTrip ==
    call.op = "parse_built" =>
        /\ call.exc = "none"
        /\ call.parsed = call.entity_info

\* The round trip of the names that hold neither "?" nor "#".
C11_RoundTripPlainNames ==
    (/\ call.op = "parse_built"
     /\ \A k \in 1..Len(call.entity_info.name) : call.entity_info.name[k] \notin {"?", "#"})
        => (call.exc = "none" /\ call.parsed = call.entity_info)

\* The pager a relationship query answers with for the locators infos.
PagerOf(pageSize, infos) ==
    BALEntityReferencePagerInterface(
        pageSize, [k \in 1..Len(infos) |-> __build_entity_ref(infos[k])])

\* The locator a stable-reference query is to answer with: the input when it
\* names a version, else the one of the entity's current number of versions.
StableLocator(entity_info, lib) ==
    IF entity_info.version # None THEN entity_info
    ELSE EntityInfo(entity_info.name, NumVersions(lib, entity_info.name), entity_info.access)

\* C12: a stable-reference relationship query on a locator whose entity name
\* is present answers with exactly one locator, of a concrete version: the
\* input locator when it names a version, otherwise the locator of the
\* entity's current number of versions.
C12_StableReferenceOneVersioned ==
    (/\ call.op = "getWithRelationship"
     /\ call.access = kRead
     /\ call.query.relationship = pStableReference) =>
        \A k \in 1..call.n :
            LET parsed == __parse_entity_ref(call.refs[k], kRead)
            IN  (parsed.exc = "none" /\ parsed.entity_info.name \in DOMAIN library.entities) =>
                    /\ k <= Len(call.events)
                    /\ call.events[k] =
                           Success(k - 1, PagerOf(call.query.pageSize,
                                                  <<StableLocator(parsed.entity_info, library)>>))
                    /\ StableLocator(parsed.entity_info, library).version >= 1

\* The same for the calls that raise nothing: the elements whose entity has
\* a version, or whose locator names one.
C12_StableReferenceUnlessRaised ==
    (/\ call.op = "getWithRelationship"
     /\ call.access = kRead
     /\ call.query.relationship = pStableReference
     /\ call.raised = "none") =>
        \A k \in 1..call.n :
            LET parsed == __parse_entity_ref(call.refs[k], kRead)
            IN  (parsed.exc = "none" /\ parsed.entity_info.name \in DOMAIN library.entities) =>
                    /\ call.events[k] =
                           Success(k - 1, PagerOf(call.query.pageSize,
                                                  <<StableLocator(parsed.entity_info, library)>>))
                    /\ StableLocator(parsed.entity_info, library).version >= 1

\* The locators an entity-versions query is to answer with, for an entity of
\* n versions: without a tag every version newest first, after one
\* unversioned locator unless the stable variant is asked for; with the
\* integer tag k the locator of version k when there is one.
ExpectedVersions(entity_info, relationship, lib) ==
    LET n == NumVersions(lib, entity_info.name)
        tag == getSpecifiedTag(relationship)
        stable == StableTrait_kId \in DOMAIN relationship
    IN  IF tag = <<>>
        THEN (IF stable THEN <<>>
              ELSE <<EntityInfo(entity_info.name, None, entity_info.access)>>)
             \o [i \in 1..n |-> EntityInfo(entity_info.name, n + 1 - i, entity_info.access)]
        ELSE IF PyInt(tag).value \in 1..n
        THEN <<EntityInfo(entity_info.name, PyInt(tag).value, entity_info.access)>>
        ELSE <<>>

\* An entity-versions pattern with no specified tag or an integer one.
IsVersionsQuery(relationship) ==
    /\ DOMAIN relationship \in { EntityVersionsRelationshipSpecification_kTraitSet,
                                 StableEntityVersionsRelationshipSpecification_kTraitSet }
    /\ getSpecifiedTag(relationship) = <<>> \/ PyInt(getSpecifiedTag(relationship)).ok

IsLatestQuery(relationship) ==
    /\ DOMAIN relationship \in { EntityVersionsRelationshipSpecification_kTraitSet,
                                 StableEntityVersionsRelationshipSpecification_kTraitSet }
    /\ getSpecifiedTag(relationship) = VERSION_TAG_LATEST

\* The elements of a getWithRelationship call for read that were answered and
\* whose reference names an entity of the library with at least one version.
AnsweredWithVersions(k) ==
    /\ k <= Len(call.events)
    /\ __parse_entity_ref(call.refs[k], kRead).exc = "none"
    /\ NumVersions(library, __parse_entity_ref(call.refs[k], kRead).entity_info.name) >= 1

\* C14: an entity-versions query with the specified tag "latest" on an entity
\* with n >= 1 versions answers with exactly one locator, and that locator is
\* the one of version n.
C14_LatestIsVersionN ==
    (/\ call.op = "getWithRelationship"
     /\ call.access = kRead
     /\ IsLatestQuery(call.query.relationship)) =>
        \A k \in 1..call.n :
            AnsweredWithVersions(k) =>
                LET entity_info == __parse_entity_ref(call.refs[k], kRead).entity_info
                IN  call.events[k] =
                        Success(k - 1,
                                PagerOf(call.query.pageSize,
                                        <<EntityInfo(entity_info.name,
                                                     NumVersions(library, entity_info.name),
                                                     entity_info.access)>>))

\* C14, amended: the query answers with exactly one locator; with the stable
\* variant of the pattern it is the locator of version n, with the plain
\* variant it is the unversioned locator.
C14_LatestByVariant ==
    (/\ call.op = "getWithRelationship"
     /\ call.access = kRead
     /\ IsLatestQuery(call.query.relationship)) =>
        \A k \in 1..call.n :
            AnsweredWithVersions(k) =>
                LET entity_info == __parse_entity_ref(call.refs[k], kRead).entity_info
                    n == NumVersions(library, entity_info.name)
                IN  call.events[k] =
                        Success(k - 1,
                                PagerOf(call.query.pageSize,
                                        <<EntityInfo(entity_info.name,
                                                     IF StableTrait_kId \in
                                                            DOMAIN call.query.relationship
                                                     THEN n ELSE None,
                                                     entity_info.access)>>))

\* The stable variant answers with version 3 of an entity that has gained a
\* third version.
C14_Witness ==
    /\ call.op = "getWithRelationship"
    /\ call.access = kRead
    /\ call.query.relationship = pStableVersionsLatest
    /\ call.refs = <<Ref(nA, qV1)>>
    /\ NumVersions(library, nA) = 3
    /\ call.events =
           << Success(0, [page_num |-> 0,
                          pages |-> << <<Ref(nA, <<"?", "v", "=", "3">>)>> >>]) >>

\* A relation matches a pattern when every trait id of the pattern is a key
\* of its traits and every property of the pattern has the same value there.
PatternMatches(relation, pattern) ==
    \A t \in DOMAIN pattern :
        /\ t \in DOMAIN relation.traits
        /\ \A prop \in DOMAIN pattern[t] :
               /\ prop \in DOMAIN relation.traits[t]
               /\ relation.traits[t][prop] = pattern[t][prop]

\* The relation records of an entity that match a pattern, in stored order.
MatchedRelations(name, pattern, lib) ==
    SelectSeq(lib.entities[name].relations, LAMBDA rel : PatternMatches(rel, pattern))

\* The related names a generic query is to answer with.
ExpectedRelated(name, pattern, filter, lib) ==
    LET matched == MatchedRelations(name, pattern, lib)
    IN  Flatten([i \in 1..Len(matched) |->
            SelectSeq(matched[i].entities,
                      LAMBDA nm :
                          \/ filter = {}
                          \/ filter \subseteq
                                 DOMAIN entity(EntityInfo(nm, None, "read"), lib,
                                               Environ).entity.traits)])

\* Every related name of the matched relations resolves for read.
AllRelatedResolve(name, pattern, lib) ==
    LET matched == MatchedRelations(name, pattern, lib)
    IN  \A i \in 1..Len(matched) : \A j \in 1..Len(matched[i].entities) :
            entity(EntityInfo(matched[i].entities[j], None, "read"), lib, Environ).exc = "none"

\* A pattern that is none of the reserved ones.
IsGenericQuery(relationship) ==
    DOMAIN relationship \notin { EntityVersionsRelationshipSpecification_kTraitSet,
                                 StableEntityVersionsRelationshipSpecification_kTraitSet,
                                 StableReferenceRelationshipSpecification_kTraitSet }

Traversed(name, pattern, lib) ==
    LET matched == MatchedRelations(name, pattern, lib)
    IN  Flatten([i \in 1..Len(matched) |-> matched[i].entities])

\* What a direct lookup of a related name raises, "none" when it resolves.
DirectLookup(name, access, lib) == entity(EntityInfo(name, None, access), lib, Environ).exc

\* The relations of the locator's entity name a name that is not in entities.
HasDanglingRelation(entity_info, lib) ==
    \E i \in 1..Len(lib.entities[entity_info.name].relations) :
        \E j \in 1..Len(lib.entities[entity_info.name].relations[i].entities) :
            lib.entities[entity_info.name].relations[i].entities[j] \notin DOMAIN lib.entities

\* C16: if a relation record of the source entity names a target that is not
\* in entities, a generic related query on that source raises
\* UnknownBALEntity, the error of a direct lookup of that name.
C16_DanglingAlwaysRaises ==
    (/\ call.op = "related_references"
     /\ entity(call.entity_info, library, Environ).exc = "none"
     /\ HasDanglingRelation(call.entity_info, library)) =>
        call.exc = "UnknownBALEntity"

\* C16, amended: the query raises what the direct lookup of the first
\* related name that does not resolve raises, among the names of the
\* relations that match the pattern in stored order; so a dangling name in a
\* matching relation is never skipped (the query returns no result), and it
\* raises UnknownBALEntity when every name walked before it resolves.  The
\* relations that do not match the pattern are not looked at.
C16_FirstBrokenReferenceRaises ==
    (/\ call.op = "related_references"
     /\ entity(call.entity_info, library, Environ).exc = "none") =>
        LET names == Traversed(call.entity_info.name, call.traits, library)
            broken == { i \in 1..Len(names) :
                          DirectLookup(names[i], call.entity_info.access, library) # "none" }
            first == CHOOSE i \in broken : \A j \in broken : i <= j
        IN  /\ broken = {} => call.exc = "none"
            /\ broken # {} =>
                   /\ call.exc = DirectLookup(names[first], call.entity_info.access, library)
                   /\ call.results = <<>>
                   /\ names[first] \notin DOMAIN library.entities =>
                          call.exc = "UnknownBALEntity"
            /\ (\E i \in 1..Len(names) : names[i] \notin DOMAIN library.entities) =>
                   call.exc # "none"

\* The relation {rel: {kind: 4}} of a names r, which resolves, and then n,
\* which is not in entities: the query raises UnknownBALEntity.
C16_Witness ==
    /\ call.op = "related_references"
    /\ call.entity_info = EntityInfo(nA, None, "read")
    /\ call.traits = [rel |-> [kind |-> IntVal(4)]]
    /\ nNew \notin DOMAIN library.entities
    /\ call.exc = "UnknownBALEntity"
    /\ call.results = <<>>

\* The rules the library holds for an access mode: its overrides, and its
\* default when it has one.
RulesOf(access, lib) ==
    IF access \in DOMAIN lib.managementPolicy THEN lib.managementPolicy[access]
    ELSE [hasDefault |-> FALSE, default |-> EmptyDict, overrideByTraitSet |-> <<>>]

\* The positions of the overrides of an access mode whose trait set is
\* exactly trait_set.
ExactOverrides(trait_set, access, lib) ==
    { i \in 1..Len(RulesOf(access, lib).overrideByTraitSet) :
          RulesOf(access, lib).overrideByTraitSet[i].traitSet = trait_set }

\* C17: management_policy(trait_set, access) returns the policy of an
\* override of that access mode whose trait set equals trait_set (a strict
\* superset or subset does not match), and otherwise the default of that
\* access mode; the rules of other access modes are never used.
C17_ExactOverrideElseDefault ==
    call.op = "management_policy" =>
        LET rules == RulesOf(call.access, library)
            exact == ExactOverrides(call.trait_set, call.access, library)
        IN  /\ exact # {} =>
                   /\ call.exc = "none"
                   /\ call.policy =
                          rules.overrideByTraitSet[
                              CHOOSE i \in exact : \A j \in exact : i <= j].policy
            /\ (exact = {} /\ rules.hasDefault) =>
                   (call.exc = "none" /\ call.policy = rules.default)
            /\ (exact = {} /\ ~rules.hasDefault) => call.exc = "LookupError"

\* The policy for {t1} and read is the default of read, though read holds an
\* override for the superset {t1, t3} and write one for {t1}.
C17_Witness ==
    /\ call.op = "management_policy"
    /\ call.trait_set = {"t1"}
    /\ call.access = "read"
    /\ call.exc = "none"
    /\ call.policy = [managed |-> EmptyDict]
    /\ library.managementPolicy["read"].overrideByTraitSet[1].traitSet = {"t1", "t3"}
    /\ library.managementPolicy["write"].overrideByTraitSet[1].traitSet = {"t1"}

\* The library holds neither an override for exactly trait_set nor a default
\* under the access mode.
NoPolicy(trait_set, access, lib) ==
    /\ ExactOverrides(trait_set, access, lib) = {}
    /\ ~RulesOf(access, lib).hasDefault

\* The elements (from 1) of a publishing call whose trait set has no policy
\* for write.
WithoutPolicy ==
    { k \in 1..call.n : NoPolicy(DOMAIN call.traitsDatas[k], "write", library) }

\* C18: when the library holds neither a matching override nor a default for
\* the access mode, the policy lookup raises LookupError, which is none of the
\* entity errors; managementPolicy, preflight and register end with that
\* exception raised, with no result for the element (neither an error nor a
\* success) nor for any later one.
C18_MissingPolicyIsRaised ==
    /\ call.op = "managementPolicy" =>
           IF \E k \in 1..Len(call.traitSets) :
                  NoPolicy(call.traitSets[k], kAccessNames[call.access + 1], library)
           THEN call.raised = "LookupError" /\ call.result = <<>>
           ELSE call.raised = "none"
    /\ (call.op \in {"preflight", "register"} /\ call.access = kWrite) =>
           /\ call.raised = "LookupError" <=> WithoutPolicy # {}
           /\ WithoutPolicy # {} =>
                  LET first == CHOOSE k \in WithoutPolicy : \A j \in WithoutPolicy : k <= j
                  IN  /\ Len(call.events) = first - 1
                      /\ \A e \in 1..Len(call.events) : call.events[e].idx = e - 1

\* register raises LookupError at its second element, whose trait set has no
\* policy for write, after the first element was registered.
C18_Witness ==
    /\ call.op = "register"
    /\ call.n = 2
    /\ call.raised = "LookupError"
    /\ WithoutPolicy = {2}
    /\ Len(call.events) = 1
    /\ call.events[1].ok

\* The locator has a record: its name is present and selection finds one.
HasRecord(entity_info, lib) ==
    /\ entity_info.name \in DOMAIN lib.entities
    /\ SelectionRule(entity_info, lib).found

\* The trait ids of the record selected for a locator that has one.
RecordTraitIds(entity_info, lib) == DOMAIN SelectionRule(entity_info, lib).rec.traits

\* What entityTraits answers for the well-formed reference k of the last
\* call when Write gives the record's trait ids whenever exists is true.
TraitsAnswerAsStated(k) ==
    LET entity_info == __parse_entity_ref(call.refs[k], call.access).entity_info
    IN  IF call.access = kRead
        THEN ResolveOutcome(entity_info, library) = "none" =>
                 call.events[k] = Success(k - 1, RecordTraitIds(entity_info, library)
                                                     \cup {VersionTrait_kId})
        ELSE IF ~HasRecord(entity_info, library)
        THEN call.events[k] = Success(k - 1, {})
        ELSE call.events[k] = Success(k - 1, RecordTraitIds(entity_info, library))

\* C19 as stated: entityTraits with access Read on a resolvable locator
\* returns the record's trait ids plus the version marker; with access Write
\* it returns the empty set when exists(locator) is false and exactly the
\* record's trait ids when it is true.
C19_WriteTraitsWheneverExists ==
    (call.op = "entityTraits" /\ call.raised = "none") =>
        \A k \in 1..call.n :
            __parse_entity_ref(call.refs[k], call.access).exc = "none" =>
                TraitsAnswerAsStated(k)

\* What entityTraits answers for the well-formed reference k of the last
\* call.
TraitsAnswer(k) ==
    LET entity_info == __parse_entity_ref(call.refs[k], call.access).entity_info
    IN  IF call.access = kRead
        THEN ResolveOutcome(entity_info, library) = "none" =>
                 call.events[k] = Success(k - 1, RecordTraitIds(entity_info, library)
                                                     \cup {VersionTrait_kId})
        ELSE IF ~HasRecord(entity_info, library)
        THEN call.events[k] = Success(k - 1, {})
        ELSE IF ResolveOutcome(entity_info, library) = "InaccessibleEntity"
        THEN call.events[k] = Error(k - 1, "kEntityAccessError")
        ELSE call.events[k] = Success(k - 1, RecordTraitIds(entity_info, library))

\* The entity a reference names is present and has no access override.
NoAccessOverride(entity_ref, lib) ==
    LET parsed == __parse_entity_ref(entity_ref, kRead)
    IN  /\ parsed.exc = "none"
        /\ parsed.entity_info.name \in DOMAIN lib.entities
        /\ lib.entities[parsed.entity_info.name].overrideByAccess = EmptyDict

\* C19, amended: entityTraits with access Read on a resolvable locator
\* returns the record's trait ids plus the version marker; with access Write
\* it returns the empty set when exists(locator) is false, the access error
\* of resolve when exists is true and the selected record has no traits
\* value, and otherwise exactly the record's trait ids without the version
\* marker.  For a locator that resolves, of an entity with no access
\* override, the Read result is the Write result plus the version marker.
C19_EntityTraitsByAccess ==
    /\ (call.op = "entityTraits" /\ call.raised = "none") =>
           \A k \in 1..call.n :
               __parse_entity_ref(call.refs[k], call.access).exc = "none" =>
                   TraitsAnswer(k)
    /\ \A entity_ref \in EntityRefs :
           (/\ NoAccessOverride(entity_ref, library)
            /\ ResolveOutcome(__parse_entity_ref(entity_ref, kRead).entity_info, library)
                   = "none") =>
               LET read == entityTraits(<<entity_ref>>, kRead, library, Environ).events[1]
                   write == entityTraits(<<entity_ref>>, kWrite, library, Environ).events[1]
               IN  /\ read.ok /\ write.ok
                   /\ VersionTrait_kId \notin write.value
                   /\ read.value = write.value \cup {VersionTrait_kId}

\* entityTraits has answered for write, in one call: the trait ids of the
\* latest record of a, without the marker, which read answers with; the
\* empty set for a name the library does not hold; an access error for r,
\* which exists for write and has a blank record.
C19_Witness ==
    /\ call.op = "entityTraits"
    /\ call.access = kWrite
    /\ call.refs = <<Ref(nA, <<>>), Ref(nR, <<>>)>>
    /\ call.events = <<Success(0, {"t1", "t2"}), Error(1, "kEntityAccessError")>>
    /\ entityTraits(<<Ref(nA, <<>>), Ref(nNew, <<>>)>>, kWrite, library, Environ).events
           = <<Success(0, {"t1", "t2"}), Success(1, {})>>
    /\ entityTraits(<<Ref(nA, <<>>)>>, kRead, library, Environ).events
           = <<Success(0, {"t1", "t2", VersionTrait_kId})>>

\* The locator and the entity of the element k of the last resolve call,
\* whose reference is well formed and whose name the library holds.
ResolvedLocator(k) == __parse_entity_ref(call.refs[k], call.access).entity_info

\* The version trait resolve reported for the element k.
ReportedVersion(k) == call.events[k].value[VersionTrait_kId]

\* The specified tag of the element k is the version of its locator, or
\* "latest" when the locator gives none.
SpecifiedTagEchoed(k) ==
    ReportedVersion(k)["specifiedTag"] =
        StrVal(IF ResolvedLocator(k).version # None
               THEN IntToStr(ResolvedLocator(k).version)
               ELSE VERSION_TAG_LATEST)

\* The stable tag of the element k is the number of a version of the entity:
\* the locator's when it gives one, else the number of versions.
StableTagConcrete(k) ==
    LET n == Len(library.entities[ResolvedLocator(k).name].versions)
    IN  \E i \in 1..n :
            /\ ReportedVersion(k)["stableTag"] = StrVal(IntToStr(i))
            /\ i = IF ResolvedLocator(k).version # None THEN ResolvedLocator(k).version
                   ELSE n

\* C20: whenever resolve succeeds for a request that includes the version
\* trait, the stable tag is the concrete version number that was resolved
\* (an integer between 1 and the entity's number of versions, never none or
\* "latest"), and the specified tag is the version given in the locator, or
\* "latest" when the locator gives none.
C20_StableTagIsResolvedVersion ==
    (call.op = "resolve" /\ VersionTrait_kId \in call.traitSet) =>
        \A k \in 1..Len(call.events) :
            call.events[k].ok => (StableTagConcrete(k) /\ SpecifiedTagEchoed(k))

\* C20 for the locators that no access override answers: the stable tag is
\* the number of the resolved version; and the specified tag echoes the
\* locator for every resolved element.
C20_StableTagUnlessOverride ==
    (call.op = "resolve" /\ VersionTrait_kId \in call.traitSet) =>
        \A k \in 1..Len(call.events) :
            call.events[k].ok =>
                /\ SpecifiedTagEchoed(k)
                /\ kAccessNames[call.access + 1]
                       \notin DOMAIN library.entities[ResolvedLocator(k).name]
                                         .overrideByAccess
                       => StableTagConcrete(k)

\* resolve has reported the stable tag "None" for an unversioned locator that
\* an access override answers.
C20_StableTagNone ==
    /\ call.op = "resolve"
    /\ call.refs = <<Ref(nM, <<>>)>>
    /\ call.access = kManagerDriven
    /\ VersionTrait_kId \in call.traitSet
    /\ call.events[1].ok
    /\ ReportedVersion(1)["stableTag"] = StrVal(<<"N", "o", "n", "e">>)
    /\ ReportedVersion(1)["specifiedTag"] = StrVal(VERSION_TAG_LATEST)

\* The result of the last create_or_update_entity names the entity and the
\* access it was given and the newly created tag.
ResultNamesNewTag ==
    /\ call.result.name = call.entity_info.name
    /\ call.result.access = call.entity_info.access
    /\ call.result.version = Len(library.entities[call.entity_info.name].versions)

\* C21: create_or_update_entity does not modify the locator it is given:
\* after the call the input locator still has its original version, and the
\* result is a new locator with the same name and access whose version is the
\* newly created tag.
C21_InputLocatorKept ==
    call.op = "create_or_update_entity" =>
        /\ call.argument = call.entity_info
        /\ ResultNamesNewTag

\* C21 as the code has it: the result names the same entity and access and
\* the newly created tag, and it is the locator passed in, which now holds
\* that tag.
C21_InputLocatorIsResult ==
    call.op = "create_or_update_entity" =>
        /\ call.argument = call.result
        /\ ResultNamesNewTag

\* A locator given with version 1 holds version 3 after the call.
C21_LocatorOverwritten ==
    /\ call.op = "create_or_update_entity"
    /\ call.entity_info = EntityInfo(nA, 1, "write")
    /\ call.argument = EntityInfo(nA, 3, "write")

\* C22: preflight and register called with an access mode other than write
\* call the error callback exactly once for every element of the batch, with
\* an entity access error, never the success callback, and leave the library
\* unchanged: no element is parsed, validated or published.
C22_UnsupportedAccessRefusesBatch ==
    [][(call'.op \in {"preflight", "register"} /\ call'.access # kWrite) =>
          /\ call'.raised = "none"
          /\ call'.events = [k \in 1..call'.n |-> Error(k - 1, "kEntityAccessError")]
          /\ library' = library]_vars

\* register with access createRelated has refused a batch of two elements of
\* which the first would be published with access write and the second has a
\* malformed reference; the entity still has its two versions.
C22_Witness ==
    /\ call.op = "register"
    /\ call.access = kCreateRelated
    /\ call.refs = <<Ref(nA, <<>>), Ref(<<>>, <<>>)>>
    /\ call.traitsDatas = <<T2, T1>>
    /\ call.events = <<Error(0, "kEntityAccessError"), Error(1, "kEntityAccessError")>>
    /\ Len(library.entities[nA].versions) = 2
    /\ register(call.refs, call.traitsDatas, kWrite, library, Environ).events[1].ok

\* The name of a token piece, and what the specification puts in its place:
\* the library variable, else the environment variable, else the token.
TokenName(piece) ==
    IF piece[2] = "{" THEN SubSeq(piece, 3, Len(piece) - 1) ELSE SubSeq(piece, 2, Len(piece))

TokenValue(piece, lib) ==
    IF piece[1] # "$" THEN piece
    ELSE IF TokenName(piece) \in DOMAIN lib.variables THEN lib.variables[TokenName(piece)]
    ELSE IF TokenName(piece) \in DOMAIN Environ THEN Environ[TokenName(piece)]
    ELSE piece

\* C23: on resolve, in every string property each $name / ${name} token is
\* replaced by the library variable of that name if one is defined,
\* otherwise by the environment variable of that name, and is left verbatim
\* when neither defines it; non-string values are returned unchanged, and the
\* stored version record is not modified by the substitution.
C23_TokensSubstituted ==
    /\ (/\ call.op = "_copy_and_expand_trait_properties"
        /\ call.variables = library.variables
        /\ call.environ = Environ) =>
           \A pieces \in UNION { [1..k -> TemplatePieces] : k \in 1..MaxPieces } :
               call.entity_version_dict.traits["t1"]["p"] = StrVal(Flatten(pieces)) =>
                   /\ call.expanded["t1"]["p"] =
                          StrVal(Flatten([k \in 1..Len(pieces) |->
                                             TokenValue(pieces[k], library)]))
                   /\ call.expanded["t1"]["q"] = IntVal(1)
                   /\ DOMAIN call.expanded = {"t1", "t2"}
                   /\ call.expanded["t2"] = EmptyDict
    /\ (call.op = "entity" /\ call.exc = "none") =>
           /\ SelectionRule(call.entity_info, library).found
           /\ \A trait \in DOMAIN call.entity.traits :
                  \A prop \in DOMAIN call.entity.traits[trait] :
                      LET stored == SelectionRule(call.entity_info, library)
                                        .rec.traits[trait][prop]
                      IN  IF stored.isStr
                          THEN stored.s = <<"$", "v">> =>
                                   call.entity.traits[trait][prop] = StrVal(<<"L">>)
                          ELSE call.entity.traits[trait][prop] = stored

\* A property "${v}$e$u" came back as "LE$u": the library's v, not the
\* environment's, the environment's e, and the undefined token as it was.
C23_Witness ==
    /\ call.op = "_copy_and_expand_trait_properties"
    /\ call.variables = library.variables
    /\ call.environ = Environ
    /\ call.entity_version_dict.traits["t1"]["p"]
           = StrVal(<<"$", "{", "v", "}", "$", "e", "$", "u">>)
    /\ call.expanded["t1"]["p"] = StrVal(<<"L", "E", "$", "u">>)
    /\ Environ[<<"v">>] = <<"X">>
    /\ library.variables[<<"v">>] = <<"L">>

\* The three keys of the variables load_library assigns.
ImplicitKeys == DOMAIN ImplicitVariables(<<>>, <<>>, <<>>)

\* The file a path names, the working directory and the directory of every
\* file being /l, and the variables its document declares.
FileAt(path) == <<"/", "l", "/", path[Len(path)]>>

Declared(path) == Get(Files[FileAt(path)].document, "variables", EmptyDict)

\* C24 as stated: when a library loaded from a path declares a variable whose
\* key is that of an implicit variable, the declared value is the one held in
\* the variables map after loading; the implicit value is used only for the
\* keys the library does not declare.
C24_DeclaredVariableWins ==
    (call.op = "load_library" /\ call.exc = "none") =>
        \A key \in DOMAIN Declared(call.path) :
            call.library["variables"][key] = Declared(call.path)[key]

\* C24, amended: after loading from a path the three implicit variables hold
\* the absolute path of the library, its directory and the URL of its
\* directory, whatever the library declares under these keys; a declared
\* variable is kept only under another key; and nothing else of the document
\* changes.
C24_ImplicitVariableWins ==
    (call.op = "load_library" /\ call.exc = "none") =>
        LET variables == call.library["variables"]
            document == Files[FileAt(call.path)].document
        IN  /\ DOMAIN variables = ImplicitKeys \cup DOMAIN Declared(call.path)
            /\ \A key \in DOMAIN Declared(call.path) \ ImplicitKeys :
                   variables[key] = Declared(call.path)[key]
            /\ \A key \in ImplicitKeys :
                   variables[key] =
                       ImplicitVariables(FileAt(call.path), <<"/", "l">>,
                                         <<"f", "i", "l", "e", ":", "/", "/", "/", "l">>)[key]
            /\ DOMAIN call.library = DOMAIN document \cup {"variables"}
            /\ \A key \in DOMAIN document \ {"variables"} : call.library[key] = document[key]

\* The library that declares bal_library_dir as /m was loaded from /l/./d:
\* bal_library_dir is /l, and the library's own w is kept.
C24_Witness ==
    /\ call.op = "load_library"
    /\ call.path = <<"/", "l", "/", ".", "/", "d">>
    /\ call.exc = "none"
    /\ \E key \in ImplicitKeys :
           /\ Declared(call.path)[key] = <<"/", "m">>
           /\ call.library["variables"][key] = <<"/", "l">>
    /\ call.library["variables"][<<"w">>] = <<"W">>

\* The last call substituted with no library variables and no environment.
NothingDefined ==
    /\ call.op = "_copy_and_expand_trait_properties"
    /\ call.variables = EmptyDict
    /\ call.environ = EmptyDict

\* C25 as stated: substitution with no library variables and no environment
\* variables returns a record equal to the input record for every record.
C25_NoMatchIsIdentity ==
    NothingDefined => call.expanded = call.entity_version_dict.traits

\* s with every "$$", read from the left, replaced by "$".
RECURSIVE Unescaped(_)
Unescaped(s) ==
    IF s = <<>> THEN <<>>
    ELSE IF Len(s) >= 2 /\ s[1] = "$" /\ s[2] = "$" THEN <<"$">> \o Unescaped(SubSeq(s, 3, Len(s)))
    ELSE <<s[1]>> \o Unescaped(Tail(s))

\* C25, amended: substitution with no library variables and no environment
\* variables returns every string value with each "$$" replaced by "$" and,
\* when it then starts with "file:", with its path normalised; so a string
\* value that holds no "$$" and does not start with "file:" comes back
\* identical, its undefined tokens included, and so does every value that is
\* no string.
C25_NoMatchKeepsAllButEscapes ==
    NothingDefined =>
        LET value == call.entity_version_dict.traits["t1"]["p"].s
            expanded == call.expanded["t1"]["p"]
        IN  /\ DOMAIN call.expanded = DOMAIN call.entity_version_dict.traits
            /\ call.expanded["t1"]["q"] = call.entity_version_dict.traits["t1"]["q"]
            /\ expanded.isStr
            /\ (Unescaped(value) = value /\ ~StartsWith(value, <<"f", "i", "l", "e", ":">>))
                   => expanded.s = value
            /\ ~StartsWith(Unescaped(value), <<"f", "i", "l", "e", ":">>)
                   => expanded.s = Unescaped(value)
            /\ StartsWith(Unescaped(value), <<"f", "i", "l", "e", ":">>)
                   => expanded.s = normalize_file_url(Unescaped(value))

\* A value with two undefined tokens, "$a${a}", came back as it was.
C25_Witness ==
    /\ NothingDefined
    /\ call.entity_version_dict.traits["t1"]["p"].s = <<"$", "a", "$", "{", "a", "}">>
    /\ call.expanded = call.entity_version_dict.traits

\* The segments of what follows "file:" in a value, and whether one of them
\* is "." or "..".
SegmentsOf(maybe_file_url) == Split(SubSeq(maybe_file_url, 6, Len(maybe_file_url)), "/")

HasDotSegment(maybe_file_url) ==
    \E k \in 1..Len(SegmentsOf(maybe_file_url)) :
        SegmentsOf(maybe_file_url)[k] \in {<<".">>, <<".", ".">>}

\* C26: file: URL normalisation collapses "." and ".." segments
\* (file:///a/a/../a gives file:///a/a, a trailing slash being kept) and is
\* the identity on every value that has no segment requiring collapse, the
\* root URL file:///, paths ending in "/" and file: strings that are no URLs
\* included; so normalising twice gives what normalising once gives.
C26_NormalizeFixedPoint ==
    call.op = "normalize_file_url" =>
        /\ call.maybe_file_url = <<"f", "i", "l", "e", ":", "/", "/", "/", "a", "/", "a", "/",
                                   ".", ".", "/", "a">>
               => call.result = <<"f", "i", "l", "e", ":", "/", "/", "/", "a", "/", "a">>
        /\ ~HasDotSegment(call.maybe_file_url) => call.result = call.maybe_file_url
        /\ normalize_file_url(call.result) = call.result

\* The path of a value names something: it has a segment that is neither
\* empty nor "." nor "..".
HasName(path) ==
    \E k \in 1..Len(Split(path, "/")) : Split(path, "/")[k] \notin {<<>>, <<".">>, <<".", ".">>}

\* The path has nothing to collapse: no "." or ".." segment, and no empty
\* segment but a first one (a leading slash) and a last one (a trailing one).
NothingToCollapse(path) ==
    \A k \in 1..Len(Split(path, "/")) :
        /\ Split(path, "/")[k] \notin {<<".">>, <<".", ".">>}
        /\ Split(path, "/")[k] = <<>> => k \in {1, Len(Split(path, "/"))}

\* C26 for the values whose path names something: the "." and ".." segments
\* are collapsed, a trailing slash being kept; a value whose path has nothing
\* to collapse is returned as it is; and normalising the result for an
\* absolute path, when it still names something, changes nothing.
C26_NormalizeNamedPaths ==
    call.op = "normalize_file_url" =>
        /\ call.maybe_file_url = <<"f", "i", "l", "e", ":", "/", "/", "/", "a", "/", "a", "/",
                                   ".", ".", "/", "a">>
               => call.result = <<"f", "i", "l", "e", ":", "/", "/", "/", "a", "/", "a">>
        /\ call.maybe_file_url = <<"f", "i", "l", "e", ":", "/", "/", "/", "a", "/", ".", ".",
                                   "/", "a", "/">>
               => call.result = <<"f", "i", "l", "e", ":", "/", "/", "/", "a", "/">>
        /\ (/\ HasName(urlparse(call.maybe_file_url).path)
            /\ NothingToCollapse(urlparse(call.maybe_file_url).path))
               => call.result = call.maybe_file_url
        /\ (/\ HasName(urlparse(call.result).path)
            /\ StartsWith(urlparse(call.maybe_file_url).path, <<"/">>))
               => normalize_file_url(call.result) = call.result

\* The root URL file:/// came back as file://, which normalising again turns
\* into file:///.
C26_RootRewritten ==
    /\ call.op = "normalize_file_url"
    /\ call.maybe_file_url = <<"f", "i", "l", "e", ":", "/", "/", "/">>
    /\ call.result = <<"f", "i", "l", "e", ":", "/", "/">>
    /\ normalize_file_url(call.result) = <<"f", "i", "l", "e", ":", "/", "/", "/", ".">>

\* C27: loading with no path completes without error and yields an empty
\* library whose entities mapping is empty, so that existence queries on it
\* return false rather than failing.
C27_NoPathGivesEmptyLibrary ==
    (call.op = "load_library" /\ call.path = <<>>) =>
        /\ call.exc = "none"
        /\ "entities" \in DOMAIN call.library
        /\ call.library["entities"] = EmptyDict

\* load_library with the empty path has raised, and returned no library.
C27_NoPathRaises ==
    /\ call.op = "load_library"
    /\ call.path = <<>>
    /\ call.exc = "UnboundLocalError"
    /\ call.library = EmptyDict

\* C28: if a call to initialize raises (invalid or unknown settings, a
\* missing or empty library path, a library file that cannot be read or
\* parsed), the manager's settings and its loaded library are exactly what
\* they were before the call.
C28_FailedInitializeKeepsState ==
    [][(call'.op = "initialize" /\ call'.exc # "none") =>
          (library' = library /\ settings' = settings)]_vars

\* C28 as the code has it: an initialize that raises before the load (invalid
\* or unknown settings, no library path) leaves the settings and the library
\* as they were; one that raises in the load has already merged the new
\* settings and the path into the settings, and leaves an empty dict as the
\* library; one that returns has replaced the library by the loaded one.
C28_InitializeOutcomes ==
    [][call'.op = "initialize" =>
          /\ call'.exc \in {"ValueError", "KeyError", "ConfigurationException"}
                 => (library' = library /\ settings' = settings)
          /\ call'.exc \in {"FileNotFoundError", "JSONDecodeError"}
                 => /\ library' = EmptyDict
                    /\ \A key \in DOMAIN call'.managerSettings :
                           settings'[key] = call'.managerSettings[key]
                    /\ settings'["library_path"].s # <<>>
          /\ call'.exc = "none"
                 => /\ library' = load_library(settings'["library_path"].s).library
                    /\ "entities" \in DOMAIN library'
          /\ call'.exc \in {"none", "ValueError", "KeyError", "ConfigurationException",
                            "FileNotFoundError", "JSONDecodeError"}]_vars

\* After an initialize that raised for a missing file, the settings name that
\* file with the new latency, and entityExists, which answered before, raises.
C28_LibraryLost ==
    /\ call.op = "entityExists"
    /\ call.raised = "KeyError"
    /\ library = EmptyDict
    /\ settings["library_path"] = StrVal(<<"/", "l", "/", "n">>)
    /\ settings["simulated_query_latency_ms"] = IntVal(0)

\* The element k of the last register call was published: the name and the
\* tag of the version it made.
PublishedName(k) == __parse_entity_ref(call.events[k].value, kWrite).entity_info.name

PublishedTag(k) == __parse_entity_ref(call.events[k].value, kWrite).entity_info.version

\* The element of the event k was published over an earlier version of an
\* entity with no write override, and its trait set holds every trait id of
\* that version, the latest one when it was published.
KeepsLatestTraits(k) ==
    (/\ PublishedTag(k) >= 2
     /\ "write" \notin DOMAIN library.entities[PublishedName(k)].overrideByAccess) =>
        DOMAIN library.entities[PublishedName(k)].versions[PublishedTag(k) - 1].traits
            \subseteq DOMAIN call.traitsDatas[call.events[k].idx + 1]

\* C29: a register whose target names an entity that has at least one version
\* (and no write access override) succeeds only if the supplied trait set
\* contains every trait id of the entity's current latest version record,
\* whatever version (the latest, an older one, one beyond the last) the target
\* reference names.
C29_RegisterKeepsLatestTraits ==
    (call.op = "register" /\ call.access = kWrite) =>
        \A k \in 1..Len(call.events) : call.events[k].ok => KeepsLatestTraits(k)

\* C29 for the targets that name no version: the trait set of a published
\* element holds every trait id of the version that was the latest.
C29_UnversionedTargetKeepsLatestTraits ==
    (call.op = "register" /\ call.access = kWrite) =>
        \A k \in 1..Len(call.events) :
            (/\ call.events[k].ok
             /\ __parse_entity_ref(call.refs[call.events[k].idx + 1], kWrite)
                    .entity_info.version = None)
                => KeepsLatestTraits(k)

\* A version with the trait t1 alone was published to a through a reference
\* to its first version, over a latest version that has t1 and t2.
C29_LatestTraitDropped ==
    /\ call.op = "register"
    /\ call.refs = <<Ref(nA, qV1)>>
    /\ call.traitsDatas = <<T1>>
    /\ call.events = <<Success(0, Ref(nA, <<"?", "v", "=", "3">>))>>
    /\ DOMAIN library.entities[nA].versions[2].traits = {"t1", "t2"}
    /\ DOMAIN library.entities[nA].versions[3].traits = {"t1"}

\* ------------------------------------ BALEntityReferencePagerInterface
\* A host drives a pager the interface returned: any of hasNext, next and get,
\* in any order. The call record keeps the pager and the log of the calls made
\* on it with their results.

MaxRefs == 3

MaxPageSize == 2

MaxCalls == 9

\* The result lists: the references to the first versions of an entity.
PagerRefs(n) == [k \in 1..n |-> Ref(nA, <<"?", "v", "=">> \o IntToStr(k))]

\* hasNext over the pages but one too far.
HasNextWithinPages(pager) == pager.page_num < Len(pager.pages)

hasNext(pager) == pager.page_num < Len(pager.pages) - 1

next(pager) == [pager EXCEPT !.page_num = @ + 1]

get(pager) ==
    IF pager.page_num < Len(pager.pages) THEN pager.pages[pager.page_num + 1] ELSE <<>>

PagerConstruct(page_size, entity_references) ==
    /\ UNCHANGED settings
    /\ call.op = "idle"
    /\ call' = [op |-> "pager", page_size |-> page_size,
                entity_references |-> entity_references,
                pager |-> BALEntityReferencePagerInterface(page_size, entity_references),
                log |-> <<>>]
    /\ UNCHANGED library

PagerHasNext ==
    /\ UNCHANGED settings
    /\ call.op = "pager"
    /\ Len(call.log) < MaxCalls
    /\ call' = [call EXCEPT !.log = Append(@, [op |-> "hasNext",
                                               result |-> hasNext(call.pager)])]
    /\ UNCHANGED library

PagerNext ==
    /\ UNCHANGED settings
    /\ call.op = "pager"
    /\ Len(call.log) < MaxCalls
    /\ call' = [call EXCEPT !.pager = next(@),
                            !.log = Append(@, [op |-> "next", result |-> None])]
    /\ UNCHANGED library

PagerGet ==
    /\ UNCHANGED settings
    /\ call.op = "pager"
    /\ Len(call.log) < MaxCalls
    /\ call' = [call EXCEPT !.log = Append(@, [op |-> "get", result |-> get(call.pager)])]
    /\ UNCHANGED library

NextPager ==
    \/ \E page_size \in 1..MaxPageSize, n \in 0..MaxRefs :
           PagerConstruct(page_size, PagerRefs(n))
    \/ PagerHasNext
    \/ PagerNext
    \/ PagerGet
    \/ Return

SpecPager == Init /\ [][NextPager]_vars

\* The number of next calls among the first i calls of the log.
RECURSIVE NextsBefore(_, _)
NextsBefore(log, i) ==
    IF i = 0 THEN 0
    ELSE NextsBefore(log, i - 1) + (IF log[i].op = "next" THEN 1 ELSE 0)

\* The log is a traversal: a get, then a next and a get for as long as hasNext
\* answers true, up to a hasNext that answers false.
IsTraversal(log) ==
    /\ Len(log) >= 2
    /\ log[1].op = "get"
    /\ \A i \in 2..Len(log) :
           \/ log[i - 1].op = "get" /\ log[i].op = "hasNext"
           \/ log[i - 1].op = "hasNext" /\ log[i - 1].result /\ log[i].op = "next"
           \/ log[i - 1].op = "next" /\ log[i].op = "get"
    /\ log[Len(log)].op = "hasNext"
    /\ ~log[Len(log)].result

\* The pages the gets of the log returned, in order.
PagesGot(log) ==
    LET gets == SelectSeq(log, LAMBDA c : c.op = "get")
    IN  [k \in 1..Len(gets) |-> gets[k].result]

\* The references of the list that come after the page number n.
LaterPageExists(n) == (n + 1) * call.page_size < Len(call.entity_references)

\* The pages a traversal collected: they concatenate to the list, each holds
\* at most page_size references, and each but the last exactly page_size.
TraversalCoversList ==
    LET got == PagesGot(call.log)
    IN  /\ Flatten(got) = call.entity_references
        /\ \A k \in 1..Len(got) : Len(got[k]) <= call.page_size
        /\ \A k \in 1..(Len(got) - 1) : Len(got[k]) = call.page_size

\* C30: for a pager over a list L with page size p >= 1, a get, then a next and
\* a get while hasNext is true yield pages that concatenate to L in order, each
\* of at most p references and each but the last of exactly p; hasNext is true
\* iff a later non-empty page exists; and once next has moved past the last
\* page, get returns the empty list and hasNext is false, after any number of
\* further next calls.
C30_PagerTraversal ==
    call.op = "pager" =>
        /\ IsTraversal(call.log) => TraversalCoversList
        /\ \A i \in 1..Len(call.log) :
               LET page_num == NextsBefore(call.log, i - 1)
               IN  /\ call.log[i].op = "hasNext" =>
                          (call.log[i].result <=> LaterPageExists(page_num))
                   /\ (/\ call.log[i].op = "get"
                       /\ page_num * call.page_size >= Len(call.entity_references)) =>
                          call.log[i].result = <<>>
                   /\ (/\ call.log[i].op = "hasNext"
                       /\ page_num * call.page_size >= Len(call.entity_references)) =>
                          ~call.log[i].result

\* A list of three references was traversed in pages of two, then next was
\* called, get answered the empty list, next was called again and hasNext
\* answered false.
C30_Witness ==
    /\ call.op = "pager"
    /\ call.page_size = 2
    /\ call.entity_references = PagerRefs(3)
    /\ Len(call.log) = 9
    /\ IsTraversal(SubSeq(call.log, 1, 5))
    /\ PagesGot(SubSeq(call.log, 1, 5)) = <<PagerRefs(2), <<PagerRefs(3)[3]>>>>
    /\ call.log[6].op = "next"
    /\ call.log[7].op = "get"
    /\ call.log[7].result = <<>>
    /\ call.log[8].op = "next"
    /\ call.log[9].op = "hasNext"
    /\ ~call.log[9].result
    /\ call.pager.page_num = 3
====
